---- MODULE Spec2Model ----
(***************************************************************************)
(* Model of the optimal-pick-assistant backend: the sliding-window         *)
(* RateLimiter, the TTL CacheService, and the recommendation pipeline      *)
(* (ApiController -> RecommendationService -> StatsAggregatorService).     *)
(*                                                                         *)
(* Times are milliseconds (Date.now()).  Real numbers (win rates, weights, *)
(* scores) are exact rationals <<numerator, denominator>>; IEEE rounding   *)
(* is not modelled.                                                        *)
(***************************************************************************)
EXTENDS Integers, Sequences, FiniteSets, TLC

VARIABLES
    now,            \* Date.now()
    \* ---- RateLimiter (utils/rate-limiter) ----
    maxRequests,    \* RateLimiter.maxRequests (constructor argument)
    timeWindow,     \* RateLimiter.timeWindow  (constructor argument)
    queue,          \* RateLimiter.queue: recorded timestamps, oldest first
    rlPc,           \* per caller: "idle" | "sleeping" | "admitted"
    rlWake,         \* per caller: due time of the pending setTimeout
    admitted,       \* history: timestamps pushed since the last reset()
    \* ---- CacheService ----
    cache,          \* CacheService.cache: Map key -> CacheEntry
    cleanupRunning, \* CacheService.cleanupInterval !== null
    nextSweep,      \* due time of the next setInterval tick
    lastSet,        \* history: key -> the last set() not undone by delete/clear/destroy
    cacheRet,       \* history: what the last cache operation returned
    \* ---- normalizeWeights, applied to drawn inputs ----
    nwPc,           \* "input" | "once" | "twice"
    nwIn,           \* the Partial<RecommendationWeights> passed in
    nwOut,          \* normalizeWeights(nwIn)
    nwOut2,         \* normalizeWeights(nwOut)
    \* ---- config.features ----
    features,       \* enableSynergyCalculation, enableCounterCalculation
    \* ---- RecommendationService / ApiController: requests, one at a time ----
    catalogLoaded,  \* RecommendationService.championsMap !== null
    initPending,    \* the constructor's initialize() is still awaiting the catalog
    reqPc,          \* "idle" | "catalog" | "running" | "done"
    req,            \* the request body / call arguments as supplied
    svc,            \* getRecommendations' parameters: state, weights, topN
    avail,          \* availableChampions
    batchAt,        \* the for-loop's i (1-based) of the batch being awaited
    taskPc,         \* per champion of that batch: "none" | "pool" | "fetch" | "done"
    taskPool,       \* per task: highEloPlayers as its getHighEloPlayers returned it
    taskRes,        \* per task: what calculateChampionScore resolved with
    allScores,      \* allScores as pushed, before the sort
    response,       \* what the caller got: status, error, recommendations
    statsSeen,      \* history: per champion, what getChampionStats returned
    statsRequested, \* history: champions getChampionStats was called for
    failures,       \* history: provider calls that failed
    failedFor,      \* history: candidates whose task met a failed provider call
    catalogFetches, \* history: getAllChampions() calls issued by getRecommendations
    providerCalls,  \* history: provider round trips issued by the tasks
    engineCalls,    \* history: invocations of getRecommendations
    cacheAtCall,    \* history: the cache when the request arrived
    calls,          \* history: requests made so far
    prevResponse,   \* history: what the caller of the previous request got
    catalogOutcome, \* history: "none" | "ok" | "failed", this request's own catalog fetch
    \* ---- the scoring functions, applied to drawn inputs ----
    scPc,           \* "input" | "scored" | "returned"
    scIn,           \* stats, draft state, fetched matchups and synergies, weights
    scOut,          \* the RecommendationScore built from scIn
    scTop,          \* the list returned for topN = 1
    \* ---- StatsAggregatorService.getChampionStats on a drawn sample ----
    stPc,           \* "input" | "first" | "second"
    stSample,       \* allMatches as accumulated by getSampleMatches
    stRet,          \* what getChampionStats returned
    \* ---- DataService.retryRequest and the RiotApiService calls ----
    rtPc,           \* "idle" | "calling" | "waiting" | "resolved" | "rejected"
    rtAttempt,      \* the `attempt` parameter of the running retryRequest
    rtWake,         \* due time of the pending backoff setTimeout
    rtLog,          \* history: invocations, failures and waits, in order
    rtResult,       \* what retryRequest settled with
    rcLast,         \* the last RiotApiService call: method, response, outcome
    \* ---- RiotApiService.getMatchesBatch, step by step ----
    gbPc,           \* "idle" | "fetching" | "pausing" | "done"
    gbIds,          \* the matchIds argument
    gbAt,           \* 1-based position of the for-of loop in matchIds
    gbMatches,      \* the local `matches` array
    gbWake,         \* due time of the pending 50 ms setTimeout
    gbLog,          \* history: getMatch calls started and settled, in order
    \* ---- RiotApiService: provider calls behind its RateLimiter(20, 1000) ----
    rqMethod,       \* per caller: the method waiting for its slot, or "none"
    issued,         \* history: times at which client.get was called
    \* ---- RateLimiter: waiting callers followed to their admission ----
    waits,          \* history, per caller: how often its waitForSlot() suspended
    \* ---- getSampleMatches on a cache miss, step by step ----
    smPc,           \* "idle", "summoner", "matchIds" or "done"
    smPool,         \* highEloPlayers as getHighEloPlayers returned it
    smIdx,          \* position of the loop in highEloPlayers.slice(0, 10)
    smMatches,      \* allMatches.length
    smLog,          \* history: provider requests made and players skipped
    smResult,       \* what was cached and returned, by length
    \* ---- StatsAggregatorService: stats, matchup and synergy queries over time ----
    agPool,         \* the players the leaderboards return
    agCalls,        \* history: provider requests issued so far
    agRunAt,        \* history: when getChampionStats last completed a sampling run
                    \* whose cached sample was not cleared since, or -1
    agSource,       \* history: cached matchup/synergy key -> the sample it was computed from
    agMissRet,      \* history: what the cache miss that populated the sample returned
    agClears,       \* history: cache clears so far
    agLast,         \* history: the last query, what it returned and how
    \* ---- LCUService: the WebSocket to the League Client and its reconnect timer ----
    ws,             \* this.ws: "none", or the state of the socket it refers to
    reconnectTimer, \* this.reconnectTimer: "null", a "pending" handle or a "cleared" one
    isConnected,    \* this.isConnected
    lcuDue,         \* when the pending reconnect timer may fire
    lcuClient,      \* the League Client: "up" (lockfile there, port open) or "down"
    lcuDestroyed,   \* history: destroy() was called
    lcuAttempts,    \* history: reconnection attempts started so far
    lcuAfter,       \* history: reconnection attempts started after destroy()
    \* ---- useRecommendations: the hook's state and its requests ----
    hkProps,        \* the hook's arguments as of the last render
    hkIssued,       \* history: the draft of every request issued, in order
    hkInFlight,     \* the requests not settled yet, by position in hkIssued
    hkFailed,       \* history: the requests that did not deliver recommendations
    hkRecommendations,  \* useState: recommendations
    hkIsLoading,    \* useState: isLoading
    hkError         \* useState: error (set or null)

rlVars    == <<maxRequests, timeWindow, queue, rlPc, rlWake, admitted>>
cacheVars == <<cache, cleanupRunning, nextSweep, lastSet, cacheRet>>
normVars  == <<nwPc, nwIn, nwOut, nwOut2>>
recVars   == <<catalogLoaded, initPending, reqPc, req, svc, avail, batchAt, taskPc,
               taskPool, taskRes, allScores, response, statsSeen, statsRequested,
               failures, failedFor, catalogFetches, providerCalls, engineCalls,
               cacheAtCall, calls, prevResponse, catalogOutcome>>
cfgVars   == <<features>>
scoreVars == <<scPc, scIn, scOut, scTop>>
statVars  == <<stPc, stSample, stRet>>
retryVars == <<rtPc, rtAttempt, rtWake, rtLog, rtResult, rcLast>>
batchVars == <<gbPc, gbIds, gbAt, gbMatches, gbWake, gbLog>>
\* single operations modelled step by step
riotVars  == <<rqMethod, issued>>
liveVars  == <<waits>>
sampleVars == <<smPc, smPool, smIdx, smMatches, smLog, smResult>>
aggVars   == <<agPool, agCalls, agRunAt, agSource, agMissRet, agClears, agLast>>
lcuVars   == <<ws, reconnectTimer, isConnected, lcuDue, lcuClient, lcuDestroyed,
               lcuAttempts, lcuAfter>>
hookVars  == <<hkProps, hkIssued, hkInFlight, hkFailed, hkRecommendations, hkIsLoading,
               hkError>>
extraVars == <<aggVars, lcuVars, hookVars>>
opVars    == <<batchVars, riotVars, liveVars, sampleVars, extraVars>>
\* what the request handling neither reads nor writes, apart from the flags
asideVars == <<cfgVars, scoreVars, statVars, retryVars, opVars>>
vars      == <<now, rlVars, cacheVars, normVars, recVars, asideVars>>

\* what an action of one component leaves alone
exceptRL    == <<cacheVars, normVars, recVars, asideVars>>
exceptCache == <<rlVars, normVars, recVars, asideVars>>
exceptNorm  == <<now, rlVars, cacheVars, recVars, asideVars>>

\* ------------------------------------------------------------------------
\* Bounds of the model
\* ------------------------------------------------------------------------
NumCallers == 4
MaxWindows == 2
MaxMs      == 1
MaxPeriods == 1

Callers == 1..NumCallers

\* ========================================================================
\* RateLimiter
\* ========================================================================
SlotBuffer == 10

RLWindows == {20, 1000}
RLMaxRequests == {1, 2, 3}

RLPruneMut(q, t, w) == SelectSeq(q, LAMBDA ts : t - ts > w)
\* this.queue = this.queue.filter(timestamp => now - timestamp < this.timeWindow)
RLPrune(q, t, w) == SelectSeq(q, LAMBDA ts : t - ts < w)

\* const waitTime = this.timeWindow - (now - oldestRequest) + 10
RLWaitTime(q, t, w) == w - (t - q[1]) + SlotBuffer

\* One synchronous run of the body of waitForSlot() by caller c: prune, then
\* either arm the timer (at capacity) or record the admission.  A non-positive
\* waitTime cannot arise after pruning (now - oldest < timeWindow).
RLEvaluate(c) ==
    LET q1 == RLPrune(queue, now, timeWindow) IN
    IF Len(q1) >= maxRequests
    THEN /\ queue' = q1
         /\ rlPc' = [rlPc EXCEPT ![c] = "sleeping"]
         /\ rlWake' = [rlWake EXCEPT ![c] = now + RLWaitTime(q1, now, timeWindow)]
         /\ UNCHANGED admitted
    ELSE /\ queue' = Append(q1, now)
         /\ rlPc' = [rlPc EXCEPT ![c] = "admitted"]
         /\ rlWake' = [rlWake EXCEPT ![c] = 0]
         /\ admitted' = Append(admitted, now)

\* An idle caller calls waitForSlot().
WaitForSlot(c) ==
    /\ rlPc[c] = "idle"
    /\ RLEvaluate(c)
    /\ UNCHANGED <<now, maxRequests, timeWindow, exceptRL>>

\* The setTimeout of a waiting caller fires (never early, possibly late) and
\* the recursive waitForSlot() re-evaluates the window.
TimerFired(c) ==
    /\ rlPc[c] = "sleeping"
    /\ now >= rlWake[c]
    /\ RLEvaluate(c)
    /\ UNCHANGED <<now, maxRequests, timeWindow, exceptRL>>

\* getQueueSize(): prunes as a side effect.
GetQueueSize ==
    /\ queue' = RLPrune(queue, now, timeWindow)
    /\ queue' # queue
    /\ UNCHANGED <<now, maxRequests, timeWindow, rlPc, rlWake, admitted, exceptRL>>

\* reset(): forgets every recorded timestamp; the history restarts with it.
RLReset ==
    /\ queue # <<>>
    /\ queue' = <<>>
    /\ admitted' = <<>>
    /\ UNCHANGED <<now, maxRequests, timeWindow, rlPc, rlWake, exceptRL>>

RLTick ==
    \E d \in {timeWindow \div 4, timeWindow \div 2} :
        /\ now + d <= MaxWindows * timeWindow
        /\ now' = now + d
        /\ UNCHANGED <<rlVars, exceptRL>>

\* ========================================================================
\* CacheService
\* ========================================================================
CleanupPeriod == 60000

CacheKeys == {"k1", "k2"}
CacheVals == {"a", "b"}
CacheTTLs == {0, 2, CleanupPeriod}

ExpiredMut(entry, t) == t >= entry.expiresAt
\* now > entry.expiresAt
Expired(entry, t) == t > entry.expiresAt

\* Map.set / Map.delete on a function whose domain is the set of present keys
MapPut(m, k, e) == [x \in (DOMAIN m) \cup {k} |-> IF x = k THEN e ELSE m[x]]
MapDel(m, k) == [x \in (DOMAIN m) \ {k} |-> m[x]]
EmptyMap == [x \in {} |-> 0]

CacheSetMut(m, k, v, ttl, t) ==
    MapPut(m, k, [data |-> IF k = <<"high-elo-players", 0, 0, "">> /\ k \in DOMAIN m
                           THEN m[k].data \o v ELSE v,
                  timestamp |-> t, expiresAt |-> t + ttl])
\* set(key, data, ttl)
CacheSet(m, k, v, ttl, t) ==
    MapPut(m, k, [data |-> v, timestamp |-> t, expiresAt |-> t + ttl])

\* get(key): the returned value ([hit |-> FALSE] is null) ...
CacheGet(m, k, t) ==
    IF k \notin DOMAIN m THEN [hit |-> FALSE]
    ELSE IF Expired(m[k], t) THEN [hit |-> FALSE]
    ELSE [hit |-> TRUE, data |-> m[k].data]

\* ... and the store it leaves behind (an expired entry is deleted)
CacheAfterGet(m, k, t) ==
    IF k \in DOMAIN m /\ Expired(m[k], t) THEN MapDel(m, k) ELSE m

CacheHasMut(m, k, t) ==
    IF k \notin DOMAIN m THEN FALSE
    ELSE ~ExpiredMut(m[k], t)
\* has(key)
CacheHas(m, k, t) ==
    IF k \notin DOMAIN m THEN FALSE
    ELSE ~Expired(m[k], t)

CleanupExpiredMut(m, t) == [x \in {k \in DOMAIN m : ~ExpiredMut(m[k], t)} |-> m[x]]
\* cleanupExpired()
CleanupExpired(m, t) == [x \in {k \in DOMAIN m : ~Expired(m[k], t)} |-> m[x]]

SetOp(k, v, ttl) ==
    /\ cache' = CacheSet(cache, k, v, ttl, now)
    /\ lastSet' = MapPut(lastSet, k, [data |-> v, at |-> now, ttl |-> ttl])
    /\ cacheRet' = [op |-> "set", key |-> k, at |-> now]
    /\ UNCHANGED <<now, exceptCache, cleanupRunning, nextSweep>>

GetOp(k) ==
    /\ cache' = CacheAfterGet(cache, k, now)
    /\ cacheRet' = [op |-> "get", key |-> k, at |-> now, ret |-> CacheGet(cache, k, now),
                    expiresAt |-> IF k \in DOMAIN cache THEN cache[k].expiresAt ELSE -1]
    /\ UNCHANGED <<now, exceptCache, cleanupRunning, nextSweep, lastSet>>

HasOp(k) ==
    /\ cache' = CacheAfterGet(cache, k, now)
    /\ cacheRet' = [op |-> "has", key |-> k, at |-> now, ret |-> CacheHas(cache, k, now)]
    /\ UNCHANGED <<now, exceptCache, cleanupRunning, nextSweep, lastSet>>

DeleteOp(k) ==
    /\ cache' = MapDel(cache, k)
    /\ lastSet' = MapDel(lastSet, k)
    /\ cacheRet' = [op |-> "delete", key |-> k, at |-> now, ret |-> (k \in DOMAIN cache)]
    /\ UNCHANGED <<now, exceptCache, cleanupRunning, nextSweep>>

ClearOp ==
    /\ cache' = EmptyMap
    /\ lastSet' = EmptyMap
    /\ cacheRet' = [op |-> "clear", at |-> now]
    /\ UNCHANGED <<now, exceptCache, cleanupRunning, nextSweep>>

\* The setInterval callback of startCleanup(): never early, possibly late.
Sweep ==
    /\ cleanupRunning
    /\ now >= nextSweep
    /\ cache' = CleanupExpired(cache, now)
    /\ nextSweep' = nextSweep + CleanupPeriod
    /\ cacheRet' = [op |-> "sweep", at |-> now]
    /\ UNCHANGED <<now, exceptCache, cleanupRunning, lastSet>>

DestroyMut ==
    /\ cleanupRunning' = FALSE
    /\ cache' = IF cleanupRunning THEN EmptyMap ELSE cache
    /\ lastSet' = IF cleanupRunning THEN EmptyMap ELSE lastSet
    /\ cacheRet' = [op |-> "destroy", at |-> now, stopped |-> cleanupRunning,
                    dropped |-> Cardinality(DOMAIN cache)]
    /\ UNCHANGED <<now, exceptCache, nextSweep>>
\* destroy(): clearInterval when the interval is set, then clear(); the history
\* keeps whether there was an interval to stop and how many entries went
Destroy ==
    /\ cleanupRunning' = FALSE
    /\ cache' = EmptyMap
    /\ lastSet' = EmptyMap
    /\ cacheRet' = [op |-> "destroy", at |-> now, stopped |-> cleanupRunning,
                    dropped |-> Cardinality(DOMAIN cache)]
    /\ UNCHANGED <<now, exceptCache, nextSweep>>

CacheTick ==
    \/ /\ (now % CleanupPeriod) + 1 <= MaxMs
       /\ now' = now + 1
       /\ UNCHANGED <<cacheVars, exceptCache>>
    \/ /\ now + CleanupPeriod <= MaxPeriods * CleanupPeriod + MaxMs
       /\ now' = now + CleanupPeriod
       /\ UNCHANGED <<cacheVars, exceptCache>>

\* ========================================================================
\* Numbers: exact rationals <<n, d>> with d >= 0 in lowest terms;
\* <<0, 0>> is NaN, <<1, 0>> and <<-1, 0>> are +Infinity and -Infinity.
\* ========================================================================
Abs(x) == IF x < 0 THEN -x ELSE x
Sign(x) == IF x > 0 THEN 1 ELSE IF x < 0 THEN -1 ELSE 0

RECURSIVE GCD(_, _)
GCD(a, b) == IF b = 0 THEN a ELSE GCD(b, a % b)

Rat(n, d) ==
    IF d = 0 THEN <<Sign(n), 0>>
    ELSE LET g == GCD(Abs(n), Abs(d)) IN
         IF d < 0 THEN <<(-n) \div g, (-d) \div g>> ELSE <<n \div g, d \div g>>

Num(i) == <<i, 1>>
NaN == <<0, 0>>
IsNaN(a) == a = NaN
IsFinite(a) == a[2] # 0

RatAdd(a, b) ==
    IF a[2] = 0 /\ b[2] = 0
    THEN (IF a = b THEN a ELSE NaN)
    ELSE Rat(a[1] * b[2] + b[1] * a[2], a[2] * b[2])
RatNeg(a) == <<-a[1], a[2]>>
RatSub(a, b) == RatAdd(a, RatNeg(b))
RatMul(a, b) == Rat(a[1] * b[1], a[2] * b[2])
RatDiv(a, b) == Rat(a[1] * b[2], a[2] * b[1])

\* a < b, a <= b; every comparison with NaN is false
RatLt(a, b) ==
    /\ ~IsNaN(a) /\ ~IsNaN(b)
    /\ IF a[2] = 0 /\ b[2] = 0 THEN a[1] < b[1]
       ELSE IF a[2] = 0 THEN a[1] < 0
       ELSE IF b[2] = 0 THEN b[1] > 0
       ELSE a[1] * b[2] < b[1] * a[2]
RatLe(a, b) == ~IsNaN(a) /\ ~IsNaN(b) /\ ~RatLt(b, a)

ClampMut(lo, hi, x) == IF RatLt(x, lo) THEN lo ELSE x
\* Math.max(lo, Math.min(hi, x)); Math.min/Math.max return NaN for a NaN argument
Clamp(lo, hi, x) ==
    IF IsNaN(x) THEN NaN
    ELSE LET m == IF RatLt(hi, x) THEN hi ELSE x IN
         IF RatLt(m, lo) THEN lo ELSE m

\* (x * 100).toFixed(1), as a number of tenths (round half up)
ToFixed1(x) == (2 * 1000 * x[1] + x[2]) \div (2 * x[2])

\* ========================================================================
\* Weights
\* ========================================================================
WeightKeys == {"winRate", "pickRate", "counterScore", "synergyScore"}

\* config.defaultWeights
DefaultWeights ==
    [winRate |-> <<2, 5>>, pickRate |-> <<1, 10>>,
     counterScore |-> <<3, 10>>, synergyScore |-> <<1, 5>>]

\* { ...defaults, ...weights }: a partial override is a function on a subset
\* of WeightKeys
MergeWeights(defaults, w) ==
    [k \in WeightKeys |-> IF k \in DOMAIN w THEN w[k] ELSE defaults[k]]

\* merged.winRate + merged.pickRate + merged.counterScore + merged.synergyScore
WeightSum(w) ==
    RatAdd(RatAdd(RatAdd(w.winRate, w.pickRate), w.counterScore), w.synergyScore)

normalizeWeightsMut(weights) ==
    LET merged == MergeWeights([k \in WeightKeys |-> Num(0)], weights)
        sum == RatAdd(WeightSum(merged), Num(1))
    IN  [k \in WeightKeys |-> RatDiv(merged[k], sum)]
\* RecommendationService.normalizeWeights
normalizeWeights(weights) ==
    LET merged == MergeWeights(DefaultWeights, weights)
        sum == WeightSum(merged)
    IN  [k \in WeightKeys |-> RatDiv(merged[k], sum)]

\* the overrides drawn as inputs: every component absent or one of these
MaxWeight == 4
WeightVals == {Num(i) : i \in (-1)..MaxWeight} \cup {<<1, 5>>}
PartialWeights ==
    UNION {[ks -> WeightVals] : ks \in SUBSET WeightKeys}

NormalizeOnce ==
    /\ nwPc = "input"
    /\ nwPc' = "once"
    /\ nwOut' = normalizeWeights(nwIn)
    /\ UNCHANGED <<nwIn, nwOut2, exceptNorm>>

NormalizeAgain ==
    /\ nwPc = "once"
    /\ nwPc' = "twice"
    /\ nwOut2' = normalizeWeights(nwOut)
    /\ UNCHANGED <<nwIn, nwOut, exceptNorm>>

\* ========================================================================
\* The provider (Riot API) as seen by the backend: two leaderboards and, per
\* player, a ranked match history.  Match ids are 100 * player + k.
\* ========================================================================
NumChampions == 11

\* championsMap.keys() in insertion order (the order of champion.json)
Catalog == <<1>> \o [i \in 1..(NumChampions - 2) |-> i + 2] \o <<2>>
Champions == 1..NumChampions

ChallengerPlayers == <<1, 2>>
MasterPlayers == <<3>>
FullPool == ChallengerPlayers \o MasterPlayers
Players == {1, 2, 3}

Participant(ch, pos, team, won) ==
    [championId |-> ch, teamPosition |-> pos, teamId |-> team, win |-> won]

\* GET /lol/match/v5/matches/{id}: info.participants
MatchParticipants(id) ==
    LET p == id \div 100
        k == id % 100
    IN  IF p = 1 THEN
            LET bw == k <= 11 IN
            <<Participant(1, "MIDDLE", 100, bw), Participant(5, "JUNGLE", 100, bw),
              Participant(2, "MIDDLE", 200, ~bw)>>
        ELSE IF p = 2 THEN
            LET bw == k % 2 = 1 IN
            IF k <= 15
            THEN <<Participant(1, "MIDDLE", 100, bw), Participant(5, "JUNGLE", 100, bw),
                   Participant(3, "MIDDLE", 200, ~bw)>>
            ELSE <<Participant(4, "MIDDLE", 100, bw), Participant(3, "MIDDLE", 200, ~bw),
                   Participant(5, "JUNGLE", 200, ~bw)>>
        ELSE IF p = 3 THEN
            LET bw == k % 3 = 0 IN
            <<Participant(IF k <= 12 THEN 2 ELSE 4, "MIDDLE", 100, bw),
              Participant(IF k <= 10 THEN 3 ELSE 6, "MIDDLE", 200, ~bw),
              Participant(7, "", 200, ~bw)>>
        ELSE
            \* matches of players outside the leaderboards: champion 1 in the
            \* middle role, winning the odd-numbered ones; with players from 10
            \* on, champion 6 is on its team in the first 8 matches and on the
            \* other team after that
            <<Participant(1, "MIDDLE", 100, k % 2 = 1),
              Participant(3, "MIDDLE", 200, k % 2 = 0)>>
                \o (IF p < 10 THEN <<>>
                    ELSE IF k <= 8 THEN <<Participant(6, "JUNGLE", 100, k % 2 = 1)>>
                    ELSE <<Participant(6, "JUNGLE", 200, k % 2 = 0)>>)

MatchIdsOfMut(p, count) == [k \in 1..(count + 1) |-> 100 * p + k]
\* GET /lol/match/v5/matches/by-puuid/{puuid}/ids?count=..: newest first;
\* players 8 and 9 play together, so their histories list the same matches
MatchIdsOf(p, count) == [k \in 1..count |-> 100 * (IF p = 9 THEN 8 ELSE p) + k]

\* ========================================================================
\* StatsAggregatorService
\* ========================================================================
SAMPLE_SIZE == 200
MIN_MATCHES == 30
TopPlayers == 10
MatchesPerPlayer == 20
MinMatchupMatches == 10
MinSynergyMatches == 5

StatsTtl == 3600000
SampleTtl == 7200000
PoolTtl == 86400000

Roles == {"top", "jungle", "middle", "bottom", "utility"}
NoRole == "none"

\* normalizeRole: roleMap[riotRole] || null
normalizeRole(riotRole) ==
    CASE riotRole = "TOP" -> "top"
      [] riotRole = "JUNGLE" -> "jungle"
      [] riotRole = "MIDDLE" -> "middle"
      [] riotRole = "BOTTOM" -> "bottom"
      [] riotRole = "UTILITY" -> "utility"
      [] OTHER -> NoRole

Min(a, b) == IF a < b THEN a ELSE b
\* Array.prototype.slice(0, n) for n >= 0
Slice0(s, n) == SubSeq(s, 1, Min(n, Len(s)))
SeqSome(s, P(_)) == \E i \in 1..Len(s) : P(s[i])
\* Array.prototype.find on a sequence that holds a match
SeqFind(s, P(_)) == s[CHOOSE i \in 1..Len(s) : P(s[i]) /\ \A j \in 1..(i - 1) : ~P(s[j])]
SeqCount(s, P(_)) == Len(SelectSeq(s, P))

\* matchHasChampion(match, championId, role)
matchHasChampion(id, championId, role) ==
    SeqSome(MatchParticipants(id),
            LAMBDA p : p.championId = championId /\ normalizeRole(p.teamPosition) = role)

\* cache keys: `riot-stats:c:r`, `matches-sample:c:r`, 'high-elo-players',
\* `matchup:c:o:r`, `synergy:c:a:r`
StatsKey(c, r) == <<"riot-stats", c, 0, r>>
SampleKey(c, r) == <<"matches-sample", c, 0, r>>
PoolKey == <<"high-elo-players", 0, 0, "">>
MatchupKey(c, o, r) == <<"matchup", c, o, r>>
SynergyKey(c, a, r) == <<"synergy", c, a, r>>

\* getHighEloPlayers on a cache miss: [...challengerPlayers, ...masterPlayers];
\* a failed leaderboard call has already been turned into [] by RiotApiService
FetchedPool(challengerOk, masterOk) ==
    (IF challengerOk THEN ChallengerPlayers ELSE <<>>)
        \o (IF masterOk THEN MasterPlayers ELSE <<>>)

\* getMatchesBatch(matchIds): the matches whose fetch succeeded, in order
getMatchesBatch(matchIds, badMatches) ==
    SelectSeq(matchIds, LAMBDA id : id \notin badMatches)

RECURSIVE SampleLoop(_, _, _, _, _, _)
\* the for-loop of getSampleMatches over highEloPlayers.slice(0, 10): a player
\* whose lookup or match-id listing throws is skipped, and the loop stops once
\* SAMPLE_SIZE matches are accumulated
SampleLoop(players, championId, role, badPlayers, badMatches, allMatches) ==
    IF players = <<>> THEN allMatches
    ELSE IF Head(players) \in badPlayers
         THEN SampleLoop(Tail(players), championId, role, badPlayers, badMatches, allMatches)
         ELSE LET matchIds == MatchIdsOf(Head(players), MatchesPerPlayer)
                  matches == getMatchesBatch(matchIds, badMatches)
                  relevant == SelectSeq(matches,
                                  LAMBDA id : matchHasChampion(id, championId, role))
                  acc == allMatches \o relevant
              IN  IF Len(acc) >= SAMPLE_SIZE THEN acc
                  ELSE SampleLoop(Tail(players), championId, role, badPlayers, badMatches, acc)

\* allMatches of getSampleMatches on a cache miss, for the pool it obtained
SampledMatches(pool, championId, role, badPlayers, badMatches) ==
    SampleLoop(Slice0(pool, TopPlayers), championId, role, badPlayers, badMatches, <<>>)

ReturnedSampleMut(allMatches) == Slice0(allMatches, MatchesPerPlayer)
\* what getSampleMatches returns on a cache miss: allMatches.slice(0, SAMPLE_SIZE)
\* (a cache hit returns the cached allMatches whole)
ReturnedSample(allMatches) == Slice0(allMatches, SAMPLE_SIZE)

calculateTierMut(winRate) ==
    IF RatLe(<<55, 100>>, winRate) THEN "S"
    ELSE IF RatLe(<<51, 100>>, winRate) THEN "A"
    ELSE IF RatLe(<<49, 100>>, winRate) THEN "B"
    ELSE IF RatLe(<<47, 100>>, winRate) THEN "C"
    ELSE "D"
\* calculateTier(winRate)
calculateTier(winRate) ==
    IF RatLe(<<53, 100>>, winRate) THEN "S"
    ELSE IF RatLe(<<51, 100>>, winRate) THEN "A"
    ELSE IF RatLe(<<49, 100>>, winRate) THEN "B"
    ELSE IF RatLe(<<47, 100>>, winRate) THEN "C"
    ELSE "D"

\* calculateStats(championId, role, matches)
calculateStats(championId, role, matches) ==
    LET won(id) == SeqFind(MatchParticipants(id),
                       LAMBDA p : p.championId = championId
                                  /\ normalizeRole(p.teamPosition) = role).win
        wins == SeqCount(matches, won)
        winRate == Rat(wins, Len(matches))
    IN  [championId |-> championId, role |-> role, winRate |-> winRate,
         pickRate |-> <<1, 20>>, banRate |-> Num(0), matches |-> Len(matches),
         tier |-> calculateTier(winRate), rank |-> 0]

\* null of a Promise<T | null>
Null == [isNull |-> TRUE]
IsNull(x) == x = Null

\* getMatchupData on a cache miss, from the sample getSampleMatches returned
MatchupFromSample(championId, opponentId, role, matches) ==
    LET both(id) ==
            /\ matchHasChampion(id, championId, role)
            /\ SeqSome(MatchParticipants(id), LAMBDA p : p.championId = opponentId)
        matchupMatches == SelectSeq(matches, both)
        won(id) == SeqFind(MatchParticipants(id),
                       LAMBDA p : p.championId = championId).win
    IN  IF Len(matchupMatches) < MinMatchupMatches THEN Null
        ELSE [championId |-> championId, opponentId |-> opponentId, role |-> role,
              winRate |-> Rat(SeqCount(matchupMatches, won), Len(matchupMatches)),
              matches |-> Len(matchupMatches)]

SynergyFromSampleMut(championId, allyId, role, matches) ==
    LET isChamp(p) == p.championId = championId /\ normalizeRole(p.teamPosition) = role
        same(id) ==
            /\ SeqSome(MatchParticipants(id), isChamp)
            /\ SeqSome(MatchParticipants(id), LAMBDA p : p.championId = allyId)
        synergyMatches == SelectSeq(matches, same)
        won(id) == SeqFind(MatchParticipants(id),
                       LAMBDA p : p.championId = championId).win
    IN  IF Len(synergyMatches) < MinSynergyMatches THEN Null
        ELSE [championId |-> championId, allyId |-> allyId, role |-> role,
              winRate |-> Rat(SeqCount(synergyMatches, won), Len(synergyMatches)),
              matches |-> Len(synergyMatches)]

\* getSynergyData on a cache miss, from the sample getSampleMatches returned
SynergyFromSample(championId, allyId, role, matches) ==
    LET isChamp(p) == p.championId = championId /\ normalizeRole(p.teamPosition) = role
        same(id) ==
            /\ SeqSome(MatchParticipants(id), isChamp)
            /\ LET cp == SeqFind(MatchParticipants(id), isChamp) IN
               SeqSome(MatchParticipants(id),
                       LAMBDA p : p.championId = allyId /\ p.teamId = cp.teamId)
        synergyMatches == SelectSeq(matches, same)
        won(id) == SeqFind(MatchParticipants(id),
                       LAMBDA p : p.championId = championId).win
    IN  IF Len(synergyMatches) < MinSynergyMatches THEN Null
        ELSE [championId |-> championId, allyId |-> allyId, role |-> role,
              winRate |-> Rat(SeqCount(synergyMatches, won), Len(synergyMatches)),
              matches |-> Len(synergyMatches)]

\* ========================================================================
\* RecommendationService: scoring
\* ========================================================================
minMatches == 30
batchSizeMut == NumChampions
batchSize == 10
DefaultTopN == 5
\* config.features as shipped
DefaultFeatures ==
    [enableSynergyCalculation |-> TRUE, enableCounterCalculation |-> TRUE]
enableCounterCalculation == features.enableCounterCalculation
enableSynergyCalculation == features.enableSynergyCalculation

\* calculateWinRateScore(stats)
calculateWinRateScore(stats) ==
    Clamp(Num(0), Num(100), RatMul(RatSub(stats.winRate, <<45, 100>>), Num(200)))

\* calculatePickRateScore(stats): tierScores[stats.tier] || 50
calculatePickRateScore(stats) ==
    CASE stats.tier = "S" -> Num(80)
      [] stats.tier = "A" -> Num(60)
      [] stats.tier = "B" -> Num(40)
      [] stats.tier = "C" -> Num(20)
      [] stats.tier = "D" -> Num(10)
      [] OTHER -> Num(50)

RECURSIVE RatSumOf(_)
\* xs.reduce((sum, x) => sum + x.winRate, 0)
RatSumOf(xs) ==
    IF xs = <<>> THEN Num(0)
    ELSE RatAdd(RatSumOf(SubSeq(xs, 1, Len(xs) - 1)), xs[Len(xs)].winRate)

AverageScoreMut(fetched, minSample, center, width) ==
    LET valid == SelectSeq(fetched, LAMBDA x : ~IsNull(x)) IN
    IF Len(valid) = 0 THEN Num(50)
    ELSE LET avgWinRate == RatDiv(RatSumOf(valid), Num(Len(valid))) IN
         Clamp(Num(0), Num(100),
               RatMul(RatDiv(RatSub(avgWinRate, center), width), Num(100)))
\* the tail of calculateCounterScore / calculateSynergyScore: filter by the
\* minimum sample, 50 when nothing is left, else the clamped, rescaled average
AverageScore(fetched, minSample, center, width) ==
    LET valid == SelectSeq(fetched, LAMBDA x : ~IsNull(x) /\ x.matches >= minSample) IN
    IF Len(valid) = 0 THEN Num(50)
    ELSE LET avgWinRate == RatDiv(RatSumOf(valid), Num(Len(valid))) IN
         Clamp(Num(0), Num(100),
               RatMul(RatDiv(RatSub(avgWinRate, center), width), Num(100)))

\* calculateCounterScore, given what getMatchupData returned for each enemy
calculateCounterScore(state, matchups) ==
    IF ~enableCounterCalculation \/ Len(state.enemyTeam) = 0 THEN Num(50)
    ELSE AverageScore(matchups, MinMatchupMatches, <<45, 100>>, <<10, 100>>)

\* calculateSynergyScore, given what getSynergyData returned for each ally
calculateSynergyScore(state, synergies) ==
    IF ~enableSynergyCalculation \/ Len(state.myTeam) = 0 THEN Num(50)
    ELSE AverageScore(synergies, MinSynergyMatches, <<48, 100>>, <<8, 100>>)

\* (winRateScore * weights.winRate) + ... + (synergyScore * weights.synergyScore)
TotalScore(b, weights) ==
    RatAdd(RatAdd(RatAdd(RatMul(b.winRateScore, weights.winRate),
                         RatMul(b.pickRateScore, weights.pickRate)),
                  RatMul(b.counterScore, weights.counterScore)),
           RatMul(b.synergyScore, weights.synergyScore))

generateReasoningMut(stats, scores, state) ==
    LET r1 == IF RatLe(<<52, 100>>, stats.winRate)
                 THEN <<<<"Strong win rate in tier", ToFixed1(stats.winRate), stats.tier>>>>
              ELSE IF RatLe(<<50, 100>>, stats.winRate)
                 THEN <<<<"Solid win rate", ToFixed1(stats.winRate), "">>>>
              ELSE <<>>
        r2 == IF stats.tier = "S" \/ stats.tier = "A"
                 THEN <<<<"High tier champion", 0, stats.tier>>>> ELSE <<>>
        r3 == IF RatLe(Num(70), scores.counterScore)
                 THEN <<<<"Excellent matchup into enemy composition", 0, "">>>>
              ELSE IF RatLe(Num(55), scores.counterScore)
                 THEN <<<<"Favorable matchups", 0, "">>>>
              ELSE IF RatLt(scores.counterScore, Num(40))
                 THEN <<<<"Challenging matchups - requires skill", 0, "">>>>
              ELSE <<>>
        r4 == IF RatLe(Num(65), scores.synergyScore) /\ Len(state.myTeam) > 0
                 THEN <<<<"Strong synergy with team composition", 0, "">>>> ELSE <<>>
        r5 == IF stats.matches < 50
                 THEN <<<<"Limited data - results may vary", 0, "">>>> ELSE <<>>
        reasons == r1 \o r2 \o r3 \o r4
    IN  IF Len(reasons) = 0
        THEN <<<<"Balanced pick for current situation", 0, "">>>>
        ELSE reasons \o r5

\* generateReasoning(stats, scores, state); a sentence is <<template, tenths
\* of a percent, tier>> with 0 and "" where the template has no such hole
generateReasoning(stats, scores, state) ==
    LET r1 == IF RatLe(<<52, 100>>, stats.winRate)
                 THEN <<<<"Strong win rate in tier", ToFixed1(stats.winRate), stats.tier>>>>
              ELSE IF RatLe(<<50, 100>>, stats.winRate)
                 THEN <<<<"Solid win rate", ToFixed1(stats.winRate), "">>>>
              ELSE <<>>
        r2 == IF stats.tier = "S" \/ stats.tier = "A"
                 THEN <<<<"High tier champion", 0, stats.tier>>>> ELSE <<>>
        r3 == IF RatLe(Num(70), scores.counterScore)
                 THEN <<<<"Excellent matchup into enemy composition", 0, "">>>>
              ELSE IF RatLe(Num(55), scores.counterScore)
                 THEN <<<<"Favorable matchups", 0, "">>>>
              ELSE IF RatLt(scores.counterScore, Num(40))
                 THEN <<<<"Challenging matchups - requires skill", 0, "">>>>
              ELSE <<>>
        r4 == IF RatLe(Num(65), scores.synergyScore) /\ Len(state.myTeam) > 0
                 THEN <<<<"Strong synergy with team composition", 0, "">>>> ELSE <<>>
        r5 == IF stats.matches < 50
                 THEN <<<<"Limited data - results may vary", 0, "">>>> ELSE <<>>
        reasons == r1 \o r2 \o r3 \o r4 \o r5
    IN  IF Len(reasons) = 0
        THEN <<<<"Balanced pick for current situation", 0, "">>>>
        ELSE reasons

\* the RecommendationScore built at the end of calculateChampionScore
BuildScore(championId, state, weights, stats, matchups, synergies) ==
    LET breakdown ==
            [winRateScore |-> calculateWinRateScore(stats),
             pickRateScore |-> calculatePickRateScore(stats),
             counterScore |-> calculateCounterScore(state, matchups),
             synergyScore |-> calculateSynergyScore(state, synergies)]
    IN  [championId |-> championId, role |-> state.myRole,
         totalScore |-> TotalScore(breakdown, weights),
         breakdown |-> breakdown, stats |-> stats,
         reasoning |-> generateReasoning(stats, breakdown, state)]

GoesBeforeMut(b, a) == RatLt(b.totalScore, a.totalScore)
\* comparator of allScores.sort: (a, b) => b.totalScore - a.totalScore is
\* positive (b goes first) exactly when b.totalScore > a.totalScore
GoesBefore(b, a) == RatLt(a.totalScore, b.totalScore)

RECURSIVE InsertByScore(_, _)
InsertByScore(sorted, x) ==
    IF sorted = <<>> THEN <<x>>
    ELSE IF GoesBefore(x, Head(sorted)) THEN <<x>> \o sorted
    ELSE <<Head(sorted)>> \o InsertByScore(Tail(sorted), x)

RECURSIVE SortByScoreDesc(_)
\* Array.prototype.sort with that comparator (stable: equal scores keep order)
SortByScoreDesc(s) ==
    IF s = <<>> THEN <<>>
    ELSE InsertByScore(SortByScoreDesc(SubSeq(s, 1, Len(s) - 1)), s[Len(s)])

\* validScores.slice(0, topN)
TopOf(scores, topN) == Slice0(SortByScoreDesc(scores), topN)

\* pickedIds and availableChampions of getRecommendations
PickedIds(state) ==
    {state.myTeam[i] : i \in 1..Len(state.myTeam)}
        \cup {state.enemyTeam[i] : i \in 1..Len(state.enemyTeam)}
        \cup state.bannedChampions
AvailableChampionsMut(state) == Catalog
AvailableChampions(state) ==
    SelectSeq(Catalog, LAMBDA id : id \notin PickedIds(state))

\* ========================================================================
\* RecommendationService.getRecommendations and ApiController
\* ========================================================================
\* the request bodies and call arguments drawn as inputs; myRole = NoRole is
\* an unset role, topN = 0 is an omitted topN (`request.topN || 5` treats a
\* supplied 0 the same way), a weights override with an empty domain is an
\* omitted one
Draft(myTeam, enemyTeam, banned, role) ==
    [myTeam |-> myTeam, enemyTeam |-> enemyTeam, bannedChampions |-> banned,
     myRole |-> role]
FullWeights(a, b, c, d) ==
    [winRate |-> a, pickRate |-> b, counterScore |-> c, synergyScore |-> d]
\* one call: the body of a POST that carries a currentState, or the arguments
\* of a direct call
Request(via, state, weights, topN) ==
    [via |-> via, hasState |-> TRUE, state |-> state, weights |-> weights, topN |-> topN]
OpenDraft == Draft(<<>>, <<>>, {}, "middle")
PickedDraft == Draft(<<5>>, <<3>>, {6}, "middle")
ClosedDraft == Draft(<<>>, <<>>, Champions, "middle")
UnsetDraft == Draft(<<>>, <<>>, {}, NoRole)
SomeWeights == FullWeights(Num(4), Num(1), Num(3), Num(2))
ZeroWeights == FullWeights(Num(0), Num(0), Num(0), Num(0))
\* the POST bodies drawn: each draft with and without a weights override and
\* a topN, and a body without currentState
HttpRequests ==
    {Request("http", OpenDraft, EmptyMap, 0),
     Request("http", OpenDraft, SomeWeights, 2),
     Request("http", OpenDraft, ZeroWeights, 2),
     Request("http", PickedDraft, EmptyMap, 0),
     Request("http", PickedDraft, SomeWeights, 2),
     Request("http", ClosedDraft, EmptyMap, 0),
     Request("http", UnsetDraft, EmptyMap, 0),
     [via |-> "http", hasState |-> FALSE, state |-> UnsetDraft,
      weights |-> EmptyMap, topN |-> 0]}
\* the direct calls drawn
DirectCalls ==
    {Request("direct", OpenDraft, EmptyMap, 2),
     Request("direct", OpenDraft, SomeWeights, 0),
     Request("direct", PickedDraft, EmptyMap, 0),
     Request("direct", ClosedDraft, EmptyMap, 0),
     Request("direct", UnsetDraft, EmptyMap, 0)}

\* the provider faults one sampling run can meet: a player whose lookup or
\* match listing throws, or match downloads that fail
MaxLostMatches == 5
SampleFaults(pool) ==
    {[players |-> {}, matches |-> {}]}
        \cup {[players |-> {pool[i]}, matches |-> {}] : i \in 1..Len(pool)}
        \cup {[players |-> {}, matches |-> {100 * pool[i] + k : k \in 1..MaxLostMatches}] :
                 i \in 1..Len(pool)}
FaultCost(f) == IF f.players = {} /\ f.matches = {} THEN 0 ELSE 1
MaxFailures == 1

NoResponse == [status |-> "none", error |-> "", recommendations |-> <<>>]
Answer(status, error, recs) ==
    [status |-> status, error |-> error, recommendations |-> recs]

DroppedCandidateMut(championId, role) ==
    [championId |-> championId, role |-> role, totalScore |-> Num(0),
     breakdown |-> [winRateScore |-> Num(0), pickRateScore |-> Num(0),
                    counterScore |-> Num(0), synergyScore |-> Num(0)],
     stats |-> [championId |-> championId, role |-> role, winRate |-> Num(0),
                pickRate |-> Num(0), banRate |-> Num(0), matches |-> 0,
                tier |-> "D", rank |-> 0],
     reasoning |-> <<>>]
\* calculateChampionScore: `return null` for absent or insufficient stats
DroppedCandidate(championId, role) == Null

RECURSIVE MatchupsFor(_, _, _, _)
\* Promise.all(state.enemyTeam.map(enemy => getMatchupData(championId, enemy, role))):
\* a hit is returned as cached; a miss is computed from the cached sample and
\* stored unless it is null
MatchupsFor(m, championId, enemies, role) ==
    IF enemies = <<>> THEN [cache |-> m, data |-> <<>>]
    ELSE LET o == Head(enemies)
             g == CacheGet(m, MatchupKey(championId, o, role), now)
             s == CacheGet(m, SampleKey(championId, role), now)
             v == IF g.hit THEN g.data
                  ELSE MatchupFromSample(championId, o, role,
                                         IF s.hit THEN s.data ELSE <<>>)
             m2 == IF g.hit \/ IsNull(v) THEN m
                   ELSE CacheSet(m, MatchupKey(championId, o, role), v, SampleTtl, now)
             rest == MatchupsFor(m2, championId, Tail(enemies), role)
         IN  [cache |-> rest.cache, data |-> <<v>> \o rest.data]

RECURSIVE SynergiesFor(_, _, _, _)
\* Promise.all(state.myTeam.map(ally => getSynergyData(championId, ally, role)))
SynergiesFor(m, championId, allies, role) ==
    IF allies = <<>> THEN [cache |-> m, data |-> <<>>]
    ELSE LET a == Head(allies)
             g == CacheGet(m, SynergyKey(championId, a, role), now)
             s == CacheGet(m, SampleKey(championId, role), now)
             v == IF g.hit THEN g.data
                  ELSE SynergyFromSample(championId, a, role,
                                         IF s.hit THEN s.data ELSE <<>>)
             m2 == IF g.hit \/ IsNull(v) THEN m
                   ELSE CacheSet(m, SynergyKey(championId, a, role), v, SampleTtl, now)
             rest == SynergiesFor(m2, championId, Tail(allies), role)
         IN  [cache |-> rest.cache, data |-> <<v>> \o rest.data]

\* The(S) is the element of a singleton S; The({e(x) : x \in {v}}) names the
\* value v as x inside e
The(S) == CHOOSE x \in S : TRUE

\* calculateChampionScore from the point where getChampionStats has returned
\* `stats`; a task is [pc, res, stats, pool, cache]
ScoreWithStats(m, championId, state, weights, stats) ==
    IF IsNull(stats) \/ stats.matches < minMatches
    THEN [pc |-> "done", res |-> DroppedCandidate(championId, state.myRole),
          stats |-> stats, pool |-> <<>>, cache |-> m]
    ELSE The({The({[pc |-> "done",
                    res |-> BuildScore(championId, state, weights, stats,
                                       mu.data, sy.data),
                    stats |-> stats, pool |-> <<>>, cache |-> sy.cache] :
                      sy \in {SynergiesFor(mu.cache, championId,
                                  IF enableSynergyCalculation THEN state.myTeam ELSE <<>>,
                                  state.myRole)}}) :
                 mu \in {MatchupsFor(m, championId,
                             IF enableCounterCalculation THEN state.enemyTeam ELSE <<>>,
                             state.myRole)}})

StatsFromSampleMut(m, championId, role, matches) ==
    IF Len(matches) <= MIN_MATCHES THEN [stats |-> Null, cache |-> m]
    ELSE The({[stats |-> st,
               cache |-> CacheSet(m, StatsKey(championId, role), st, StatsTtl, now)] :
                 st \in {calculateStats(championId, role, matches)}})
\* getChampionStats from the point where getSampleMatches has returned
\* `matches`: null below MIN_MATCHES, else the stats, which are cached
StatsFromSample(m, championId, role, matches) ==
    IF Len(matches) < MIN_MATCHES THEN [stats |-> Null, cache |-> m]
    ELSE The({[stats |-> st,
               cache |-> CacheSet(m, StatsKey(championId, role), st, StatsTtl, now)] :
                 st \in {calculateStats(championId, role, matches)}})

\* getChampionStats when the cache holds the stats or the sample: the cached
\* stats as they are, else the stats of the cached sample as it is
StatsFromCache(m, championId, role) ==
    LET g == CacheGet(m, StatsKey(championId, role), now)
        s == CacheGet(m, SampleKey(championId, role), now)
    IN  IF g.hit THEN [stats |-> g.data, cache |-> m]
        ELSE StatsFromSample(m, championId, role, s.data)

\* the rest of the task once getSampleMatches has returned `matches`
AfterSample(m, championId, state, weights, matches) ==
    The({ScoreWithStats(gs.cache, championId, state, weights, gs.stats) :
            gs \in {StatsFromSample(m, championId, state.myRole, matches)}})

\* calculateChampionScore up to its first provider call: cached stats, then a
\* cached sample, then a cached player pool let it run on without one
TaskStart(m, championId, state, weights) ==
    LET g == CacheGet(m, StatsKey(championId, state.myRole), now)
        s == CacheGet(m, SampleKey(championId, state.myRole), now)
        p == CacheGet(m, PoolKey, now)
    IN  IF g.hit \/ s.hit
        THEN The({ScoreWithStats(gs.cache, championId, state, weights, gs.stats) :
                     gs \in {IF g.hit THEN [stats |-> g.data, cache |-> m]
                             ELSE StatsFromSample(m, championId, state.myRole, s.data)}})
        ELSE [pc |-> IF p.hit THEN "fetch" ELSE "pool", res |-> Null, stats |-> Null,
              pool |-> IF p.hit THEN p.data ELSE <<>>, cache |-> m]

NoTasks(m) ==
    [cache |-> m,
     pc |-> [c \in Champions |-> "none"],
     pool |-> [c \in Champions |-> <<>>],
     res |-> [c \in Champions |-> Null],
     stats |-> [c \in Champions |-> Null]]

RECURSIVE StartBatch(_, _, _, _)
\* batch.map(championId => this.calculateChampionScore(championId, state, weights))
StartBatch(batch, acc, state, weights) ==
    IF batch = <<>> THEN acc
    ELSE The({StartBatch(Tail(batch),
                         [cache |-> t.cache,
                          pc |-> [acc.pc EXCEPT ![Head(batch)] = t.pc],
                          pool |-> [acc.pool EXCEPT ![Head(batch)] = t.pool],
                          res |-> [acc.res EXCEPT ![Head(batch)] = t.res],
                          stats |-> [acc.stats EXCEPT ![Head(batch)] = t.stats]],
                         state, weights) :
                 t \in {TaskStart(acc.cache, Head(batch), state, weights)}})

\* availableChampions.slice(i, i + batchSize), i counted from 1
BatchAt(av, i) == SubSeq(av, i, Min(i + batchSize - 1, Len(av)))
BatchDone(batch, pc) == \A k \in 1..Len(batch) : pc[batch[k]] = "done"
\* batchScores.filter(s => s !== null)
Collected(batch, res) ==
    SelectSeq([k \in 1..Len(batch) |-> res[batch[k]]], LAMBDA x : ~IsNull(x))
SeqSet(s) == {s[k] : k \in 1..Len(s)}

RECURSIVE RunBatches(_, _, _, _, _, _, _, _)
\* the for-loop of getRecommendations from batch i on, up to the first batch
\* that has to wait for the provider
RunBatches(i, scores, m, state, weights, av, requested, seen) ==
    IF i > Len(av)
    THEN [finished |-> TRUE, batchAt |-> i, scores |-> scores, requested |-> requested,
          seen |-> seen, tasks |-> NoTasks(m)]
    ELSE The({IF BatchDone(BatchAt(av, i), b.pc)
              THEN RunBatches(i + batchSize, scores \o Collected(BatchAt(av, i), b.res),
                              b.cache, state, weights, av,
                              requested \cup SeqSet(BatchAt(av, i)),
                              [c \in Champions |->
                                  IF b.pc[c] = "done" THEN b.stats[c] ELSE seen[c]])
              ELSE [finished |-> FALSE, batchAt |-> i, scores |-> scores,
                    requested |-> requested \cup SeqSet(BatchAt(av, i)),
                    seen |-> [c \in Champions |->
                                 IF b.pc[c] = "done" THEN b.stats[c] ELSE seen[c]],
                    tasks |-> b] :
                 b \in {StartBatch(BatchAt(av, i), NoTasks(m), state, weights)}})

\* what getRecommendations resolves with, or the handler's res.json(...)
Resolved(via, recs) == Answer(IF via = "http" THEN "200" ELSE "resolved", "", recs)
ThrownMut(via, error) == Resolved(via, <<>>)
\* a throw inside getRecommendations: the promise rejects, and the handler's
\* catch turns that into a 500
Thrown(via, error) ==
    IF via = "http" THEN Answer("500", "Failed to generate recommendations", <<>>)
    ELSE Answer("rejected", error, <<>>)

RoleMissingMut(state) == FALSE
\* if (!state.myRole)
RoleMissing(state) == state.myRole = NoRole

\* the request ends without touching the batches, the catalog or the cache
Reply(resp) ==
    /\ reqPc' = "done"
    /\ response' = resp
    /\ UNCHANGED <<cache, avail, batchAt, taskPc, taskPool, taskRes, allScores,
                   statsRequested, statsSeen, catalogFetches>>

\* the state after the for-loop has advanced as far as `run` says: either some
\* batch waits for the provider, or the sorted, truncated list is returned
ApplyRun(run, topN, via) ==
    /\ cache' = run.tasks.cache
    /\ batchAt' = run.batchAt
    /\ taskPc' = run.tasks.pc
    /\ taskPool' = run.tasks.pool
    /\ taskRes' = run.tasks.res
    /\ allScores' = run.scores
    /\ statsRequested' = run.requested
    /\ statsSeen' = run.seen
    /\ reqPc' = IF run.finished THEN "done" ELSE "running"
    /\ response' = IF run.finished THEN Resolved(via, TopOf(run.scores, topN))
                   ELSE response

\* getRecommendations once championsMap is there: pickedIds, availableChampions
\* and the batches
StartRun(args, via) ==
    /\ avail' = AvailableChampions(args.state)
    /\ catalogFetches' = catalogFetches
    /\ \E run \in {RunBatches(1, <<>>, cache, args.state, args.weights,
                               AvailableChampions(args.state), {},
                               [c \in Champions |-> Null])} :
          ApplyRun(run, args.topN, via)

\* getRecommendations(state, weights, topN) up to its first await on the provider
EngineEnter(args, via) ==
    IF RoleMissing(args.state)
    THEN Reply(Thrown(via, "Role must be specified to generate recommendations"))
    ELSE IF ~catalogLoaded
    THEN /\ reqPc' = "catalog"
         /\ catalogFetches' = catalogFetches + 1
         /\ UNCHANGED <<response, cache, avail, batchAt, taskPc, taskPool, taskRes,
                        allScores, statsRequested, statsSeen>>
    ELSE StartRun(args, via)

\* a first request, or the same request made again once the previous one is
\* over (the client polls with an unchanged draft)
MaxCalls == 2
MayCall(r) ==
    /\ calls < MaxCalls
    /\ \/ reqPc = "idle"
       \/ reqPc = "done" /\ r = req

\* ApiController.getRecommendations: POST /api/recommendations
SubmitHttp(r) ==
    /\ MayCall(r)
    /\ req' = r
    /\ cacheAtCall' = cache
    /\ calls' = calls + 1
    /\ prevResponse' = response
    /\ catalogOutcome' = "none"
    /\ LET invoke == r.hasState /\ r.state.myRole # NoRole
           args == [state |-> r.state,
                    weights |-> MergeWeights(DefaultWeights, r.weights),
                    topN |-> IF r.topN = 0 THEN DefaultTopN ELSE r.topN]
       IN  /\ engineCalls' = IF invoke THEN engineCalls + 1 ELSE engineCalls
           /\ svc' = IF invoke THEN args ELSE svc
           /\ IF ~r.hasState
              THEN Reply(Answer("400", "currentState is required", <<>>))
              ELSE IF r.state.myRole = NoRole
              THEN Reply(Answer("400", "myRole is required in currentState", <<>>))
              ELSE EngineEnter(args, "http")
    /\ UNCHANGED <<catalogLoaded, initPending, failures, failedFor, providerCalls,
                   now, rlVars, normVars, asideVars,
                   cleanupRunning, nextSweep, lastSet, cacheRet>>

\* recommendationService.getRecommendations(state, weights?, topN?) called as a
\* function, with the defaults of its signature for omitted arguments
CallDirect(r) ==
    /\ MayCall(r)
    /\ req' = r
    /\ cacheAtCall' = cache
    /\ calls' = calls + 1
    /\ prevResponse' = response
    /\ catalogOutcome' = "none"
    /\ LET args == [state |-> r.state,
                    weights |-> IF DOMAIN r.weights = {} THEN DefaultWeights ELSE r.weights,
                    topN |-> IF r.topN = 0 THEN DefaultTopN ELSE r.topN]
       IN  /\ engineCalls' = engineCalls + 1
           /\ svc' = args
           /\ EngineEnter(args, "direct")
    /\ UNCHANGED <<catalogLoaded, initPending, failures, failedFor, providerCalls,
                   now, rlVars, normVars, asideVars,
                   cleanupRunning, nextSweep, lastSet, cacheRet>>

\* the constructor's initialize(): its getAllChampions() call settles
InitializeDone(ok) ==
    /\ initPending
    /\ initPending' = FALSE
    /\ catalogLoaded' = (ok \/ catalogLoaded)
    /\ UNCHANGED <<reqPc, req, svc, avail, batchAt, taskPc, taskPool, taskRes,
                   allScores, response, statsSeen, statsRequested, failures, failedFor,
                   catalogFetches, providerCalls, engineCalls, cacheAtCall,
                   calls, prevResponse, catalogOutcome,
                   now, rlVars, normVars, asideVars,
                   cacheVars>>

\* `this.championsMap = await riotApiService.getAllChampions()` settles
CatalogFetched(ok) ==
    /\ reqPc = "catalog"
    /\ catalogLoaded' = (ok \/ catalogLoaded)
    /\ catalogOutcome' = IF ok THEN "ok" ELSE "failed"
    /\ IF ok THEN StartRun(svc, req.via)
       ELSE Reply(Thrown(req.via, "getAllChampions failed"))
    /\ UNCHANGED <<initPending, req, svc, failures, failedFor, providerCalls,
                   engineCalls, cacheAtCall, calls, prevResponse,
                   now, rlVars, normVars, asideVars,
                   cleanupRunning, nextSweep, lastSet, cacheRet>>

\* getHighEloPlayers of candidate c's task: both leaderboard calls have
\* settled; the list is cached and returned whatever it holds
TaskPoolDone(c, challengerOk, masterOk) ==
    /\ reqPc = "running"
    /\ taskPc[c] = "pool"
    /\ LET cost == (IF challengerOk THEN 0 ELSE 1) + (IF masterOk THEN 0 ELSE 1)
           pool == FetchedPool(challengerOk, masterOk)
       IN  /\ failures + cost <= MaxFailures
           /\ failures' = failures + cost
           /\ failedFor' = IF cost > 0 THEN failedFor \cup {c} ELSE failedFor
           /\ cache' = CacheSet(cache, PoolKey, pool, PoolTtl, now)
           /\ taskPool' = [taskPool EXCEPT ![c] = pool]
           /\ taskPc' = [taskPc EXCEPT ![c] = "fetch"]
    /\ providerCalls' = providerCalls + 1
    /\ UNCHANGED <<catalogLoaded, initPending, reqPc, req, svc, avail, batchAt, taskRes,
                   allScores, response, statsSeen, statsRequested, catalogFetches,
                   engineCalls, cacheAtCall, calls, prevResponse, catalogOutcome,
                   now, rlVars, normVars, asideVars,
                   cleanupRunning, nextSweep, lastSet, cacheRet>>

\* the sampling loop of candidate c's task has run through its players: the
\* sample is cached, the stats are computed and cached, the candidate is
\* scored, and when it was the last of its batch the for-loop goes on
TaskSampleDone(c) ==
    /\ reqPc = "running"
    /\ taskPc[c] = "fetch"
    /\ \E f \in SampleFaults(Slice0(taskPool[c], TopPlayers)) :
          /\ failures + FaultCost(f) <= MaxFailures
          /\ failures' = failures + FaultCost(f)
          /\ failedFor' = IF FaultCost(f) > 0 THEN failedFor \cup {c} ELSE failedFor
          /\ \E allMatches \in {SampledMatches(taskPool[c], c, svc.state.myRole,
                                                f.players, f.matches)} :
             \E m1 \in {CacheSet(cache, SampleKey(c, svc.state.myRole), allMatches,
                                 SampleTtl, now)} :
             \E t \in {AfterSample(m1, c, svc.state, svc.weights,
                                   ReturnedSample(allMatches))} :
                IF BatchDone(BatchAt(avail, batchAt), [taskPc EXCEPT ![c] = "done"])
                THEN \E run \in {RunBatches(batchAt + batchSize,
                                    allScores \o Collected(BatchAt(avail, batchAt),
                                                           [taskRes EXCEPT ![c] = t.res]),
                                    t.cache, svc.state, svc.weights, avail,
                                    statsRequested,
                                    [statsSeen EXCEPT ![c] = t.stats])} :
                        ApplyRun(run, svc.topN, req.via)
                ELSE /\ cache' = t.cache
                     /\ taskPc' = [taskPc EXCEPT ![c] = "done"]
                     /\ taskRes' = [taskRes EXCEPT ![c] = t.res]
                     /\ statsSeen' = [statsSeen EXCEPT ![c] = t.stats]
                     /\ UNCHANGED <<batchAt, taskPool, allScores, statsRequested,
                                    reqPc, response>>
    /\ providerCalls' = providerCalls + 1
    /\ UNCHANGED <<catalogLoaded, initPending, req, svc, avail, catalogFetches,
                   engineCalls, cacheAtCall, calls, prevResponse, catalogOutcome,
                   now, rlVars, normVars, asideVars,
                   cleanupRunning, nextSweep, lastSet, cacheRet>>

\* what a candidate's task returns when its provider calls all succeed and the
\* full player pool is used
Undisturbed(d, state, weights) ==
    LET matches == SampledMatches(FullPool, d, state.myRole, {}, {})
        m == CacheSet(EmptyMap, SampleKey(d, state.myRole), matches, SampleTtl, now)
    IN  AfterSample(m, d, state, weights, ReturnedSample(matches))

RECURSIVE WarmFrom(_, _, _)
\* the cache left by earlier scoring of the champions outside `cold`
WarmFrom(m, cs, cold) ==
    IF cs = <<>> THEN m
    ELSE LET c == Head(cs)
             matches == SampledMatches(FullPool, c, "middle", {}, {})
             m1 == CacheSet(m, SampleKey(c, "middle"), matches, SampleTtl, 0)
             m2 == IF Len(matches) < MIN_MATCHES THEN m1
                   ELSE CacheSet(m1, StatsKey(c, "middle"),
                                 calculateStats(c, "middle", matches), StatsTtl, 0)
         IN  WarmFrom(IF c \in cold THEN m ELSE m2, Tail(cs), cold)
WarmCache(cold, poolCached) ==
    WarmFrom(IF poolCached THEN CacheSet(EmptyMap, PoolKey, FullPool, PoolTtl, 0)
             ELSE EmptyMap,
             Catalog, cold)
\* the champions whose sample may have expired when a request arrives
ColdCandidates == {1, 2, 4}
\* at most two samples have expired at once
ColdSets == {cold \in SUBSET ColdCandidates : cold # ColdCandidates}

\* ========================================================================
\* Initial states and specifications
\* ========================================================================
RLInit ==
    /\ maxRequests = 1 /\ timeWindow = 1000
    /\ queue = <<>>
    /\ rlPc = [c \in Callers |-> "idle"]
    /\ rlWake = [c \in Callers |-> 0]
    /\ admitted = <<>>

CacheInit ==
    /\ cache = EmptyMap
    /\ cleanupRunning = TRUE
    /\ nextSweep = CleanupPeriod
    /\ lastSet = EmptyMap
    /\ cacheRet = [op |-> "none", at |-> 0]

NormInit ==
    /\ nwPc = "input"
    /\ nwIn = EmptyMap
    /\ nwOut = EmptyMap
    /\ nwOut2 = EmptyMap

RecInit ==
    /\ catalogLoaded = FALSE
    /\ initPending = FALSE
    /\ reqPc = "idle"
    /\ req = [via |-> "none"]
    /\ svc = [state |-> Draft(<<>>, <<>>, {}, NoRole), weights |-> DefaultWeights,
              topN |-> DefaultTopN]
    /\ avail = <<>>
    /\ batchAt = 1
    /\ taskPc = [c \in Champions |-> "none"]
    /\ taskPool = [c \in Champions |-> <<>>]
    /\ taskRes = [c \in Champions |-> Null]
    /\ allScores = <<>>
    /\ response = NoResponse
    /\ statsSeen = [c \in Champions |-> Null]
    /\ statsRequested = {}
    /\ failures = 0
    /\ failedFor = {}
    /\ catalogFetches = 0
    /\ providerCalls = 0
    /\ engineCalls = 0
    /\ cacheAtCall = EmptyMap
    /\ calls = 0
    /\ prevResponse = NoResponse
    /\ catalogOutcome = "none"

CfgInit == features = DefaultFeatures

ScoreInit ==
    /\ scPc = "input"
    /\ scIn = [kind |-> "none"]
    /\ scOut = Null
    /\ scTop = <<>>

StatInit ==
    /\ stPc = "input"
    /\ stSample = <<>>
    /\ stRet = Null

RetryInit ==
    /\ rtPc = "idle"
    /\ rtAttempt = 0
    /\ rtWake = 0
    /\ rtLog = <<>>
    /\ rtResult = [kind |-> "none"]
    /\ rcLast = [method |-> "none"]

BatchInit ==
    /\ gbPc = "idle"
    /\ gbIds = <<>>
    /\ gbAt = 0
    /\ gbMatches = <<>>
    /\ gbWake = 0
    /\ gbLog = <<>>

RiotInit ==
    /\ rqMethod = [c \in Callers |-> "none"]
    /\ issued = <<>>

LiveInit == waits = [c \in Callers |-> 0]

NoSample == [cached |-> 0, returned |-> 0]

SampleInit ==
    /\ smPc = "idle"
    /\ smPool = <<>>
    /\ smIdx = 0
    /\ smMatches = 0
    /\ smLog = <<>>
    /\ smResult = NoSample

MaxAggPool == 12
AggPools == {<<>>, <<8, 9>>, [i \in 1..MaxAggPool |-> 9 + i]}
NoQuery == [op |-> "none"]

AggInit ==
    /\ agPool = <<>>
    /\ agCalls = 0
    /\ agRunAt = -1
    /\ agSource = EmptyMap
    /\ agMissRet = <<>>
    /\ agClears = 0
    /\ agLast = NoQuery

LcuInit ==
    /\ ws = "none"
    /\ reconnectTimer = "null"
    /\ isConnected = FALSE
    /\ lcuDue = 0
    /\ lcuClient = "down"
    /\ lcuDestroyed = FALSE
    /\ lcuAttempts = 0
    /\ lcuAfter = 0

NoProps == [ready |-> FALSE, draft |-> 0]

HookInit ==
    /\ hkProps = NoProps
    /\ hkIssued = <<>>
    /\ hkInFlight = {}
    /\ hkFailed = {}
    /\ hkRecommendations = <<>>
    /\ hkIsLoading = FALSE
    /\ hkError = FALSE

ExtraInit == AggInit /\ LcuInit /\ HookInit

OpInit == BatchInit /\ RiotInit /\ LiveInit /\ SampleInit /\ ExtraInit

AsideInit ==
    /\ CfgInit
    /\ ScoreInit
    /\ StatInit
    /\ RetryInit
    /\ OpInit

\* --- RateLimiter alone, for any constructor arguments of the bounded sets
InitRL ==
    /\ now = 0
    /\ maxRequests \in RLMaxRequests
    /\ timeWindow \in RLWindows
    /\ queue = <<>>
    /\ rlPc = [c \in Callers |-> "idle"]
    /\ rlWake = [c \in Callers |-> 0]
    /\ admitted = <<>>
    /\ CacheInit
    /\ NormInit
    /\ RecInit
    /\ AsideInit

NextRL ==
    \/ \E c \in Callers : WaitForSlot(c)
    \/ \E c \in Callers : TimerFired(c)
    \/ GetQueueSize
    \/ RLReset
    \/ RLTick

SpecRL == InitRL /\ [][NextRL]_vars

\* --- CacheService alone
InitCache ==
    /\ now = 0
    /\ RLInit
    /\ CacheInit
    /\ NormInit
    /\ RecInit
    /\ AsideInit

NextCache ==
    \/ \E k \in CacheKeys, v \in CacheVals, ttl \in CacheTTLs : SetOp(k, v, ttl)
    \/ \E k \in CacheKeys : GetOp(k)
    \/ \E k \in CacheKeys : HasOp(k)
    \/ \E k \in CacheKeys : DeleteOp(k)
    \/ ClearOp
    \/ Sweep
    \/ Destroy
    \/ CacheTick

SpecCache == InitCache /\ [][NextCache]_vars

\* --- normalizeWeights applied to every drawn override, then to its own result
InitNorm ==
    /\ now = 0
    /\ RLInit
    /\ CacheInit
    /\ nwPc = "input"
    /\ nwIn \in PartialWeights
    /\ nwOut = EmptyMap
    /\ nwOut2 = EmptyMap
    /\ RecInit
    /\ AsideInit

NextNorm ==
    \/ NormalizeOnce
    \/ NormalizeAgain

SpecNorm == InitNorm /\ [][NextNorm]_vars

\* --- one recommendation request against a cache in any mix of warm and
\* expired entries; championsMap may be loaded, still loading (initialize() in
\* flight) or missing after a failed initialize()
InitRec ==
    /\ now = 0
    /\ RLInit
    /\ NormInit
    /\ cache \in {WarmCache(cold, poolCached) :
                     cold \in ColdSets, poolCached \in BOOLEAN}
    /\ cleanupRunning = TRUE
    /\ nextSweep = CleanupPeriod
    /\ lastSet = EmptyMap
    /\ cacheRet = [op |-> "none", at |-> 0]
    /\ catalogLoaded \in BOOLEAN
    /\ initPending \in {b \in BOOLEAN : ~(b /\ catalogLoaded)}
    /\ reqPc = "idle"
    /\ req = [via |-> "none"]
    /\ svc = [state |-> Draft(<<>>, <<>>, {}, NoRole), weights |-> DefaultWeights,
              topN |-> DefaultTopN]
    /\ avail = <<>>
    /\ batchAt = 1
    /\ taskPc = [c \in Champions |-> "none"]
    /\ taskPool = [c \in Champions |-> <<>>]
    /\ taskRes = [c \in Champions |-> Null]
    /\ allScores = <<>>
    /\ response = NoResponse
    /\ statsSeen = [c \in Champions |-> Null]
    /\ statsRequested = {}
    /\ failures = 0
    /\ failedFor = {}
    /\ catalogFetches = 0
    /\ providerCalls = 0
    /\ engineCalls = 0
    /\ cacheAtCall = EmptyMap
    /\ calls = 0
    /\ prevResponse = NoResponse
    /\ catalogOutcome = "none"
    /\ AsideInit

NextRec ==
    \/ \E r \in HttpRequests : SubmitHttp(r)
    \/ \E r \in DirectCalls : CallDirect(r)
    \/ \E ok \in BOOLEAN : InitializeDone(ok)
    \/ \E ok \in BOOLEAN : CatalogFetched(ok)
    \/ \E c \in Champions, challengerOk \in BOOLEAN, masterOk \in BOOLEAN :
          TaskPoolDone(c, challengerOk, masterOk)
    \/ \E c \in Champions : TaskSampleDone(c)

SpecRec == InitRec /\ [][NextRec]_vars

\* --- the scoring functions of calculateChampionScore applied to drawn
\* inputs: the stats getChampionStats returned, what getMatchupData and
\* getSynergyData returned for each enemy and ally, and the feature flags
MaxWinRateStep == 42
MaxTeam == 2

\* win rates from -0.05 to 1.05 in steps of 0.025, and the documented 0.523
WinRateInputs == {Rat(i, 40) : i \in (-2)..MaxWinRateStep} \cup {<<523, 1000>>}
TierInputs == {"S", "A", "B", "C", "D", "S+", ""}
StatsInput(winRate, tier) ==
    [championId |-> 1, role |-> "middle", winRate |-> winRate, pickRate |-> <<1, 20>>,
     banRate |-> Num(0), matches |-> minMatches, tier |-> tier, rank |-> 0]

\* inputs on both sides of every threshold generateReasoning tests: win rates
\* around 0.50 and 0.52 with the tier calculateTier gives them, match counts
\* around 50, at most one enemy whose matchup rescales to 0, 50, 60 or 70, and
\* at most one ally whose synergy rescales to 25 or 75
ReasoningWinRates == {<<49, 100>>, <<1, 2>>, <<51, 100>>, <<52, 100>>}
ReasoningMatches == {49, 50}
ReasoningMatchups ==
    {<<>>} \cup {<<[winRate |-> w, matches |-> 10]>> :
                    w \in {Num(0), <<1, 2>>, <<51, 100>>, <<52, 100>>}}
ReasoningSynergies ==
    {<<>>} \cup {<<[winRate |-> w, matches |-> 5]>> : w \in {<<1, 2>>, <<27, 50>>}}

\* one fetched Matchup / Synergy (only winRate and matches are read), or null
FetchedEntries ==
    {Null} \cup [winRate : {Num(0), <<1, 2>>, Num(1)}, matches : {4, 5, 9, 10}]
FetchedLists == UNION {[1..n -> FetchedEntries] : n \in 0..MaxTeam}
\* the picks that go with a fetched list: one champion per entry
TeamFor(fetched) == [i \in 1..Len(fetched) |-> i + 1]

ScoreInputs ==
    {[kind |-> "stats", stats |-> StatsInput(w, t), state |-> Draft(<<>>, <<>>, {}, "middle"),
      matchups |-> <<>>, synergies |-> <<>>, weights |-> DefaultWeights] :
        w \in WinRateInputs, t \in TierInputs}
    \cup
    {[kind |-> "counter", stats |-> StatsInput(<<523, 1000>>, "A"),
      state |-> Draft(<<>>, TeamFor(f), {}, "middle"),
      matchups |-> f, synergies |-> <<>>, weights |-> DefaultWeights] :
        f \in FetchedLists}
    \cup
    {[kind |-> "synergy", stats |-> StatsInput(<<523, 1000>>, "A"),
      state |-> Draft(TeamFor(f), <<>>, {}, "middle"),
      matchups |-> <<>>, synergies |-> f, weights |-> DefaultWeights] :
        f \in FetchedLists}
    \cup
    {[kind |-> "reasoning",
      stats |-> [StatsInput(w, calculateTier(w)) EXCEPT !.matches = n],
      state |-> Draft(TeamFor(a), TeamFor(e), {}, "middle"),
      matchups |-> e, synergies |-> a, weights |-> DefaultWeights] :
        w \in ReasoningWinRates, n \in ReasoningMatches,
        e \in ReasoningMatchups, a \in ReasoningSynergies}

\* calculateChampionScore from the sub-scores on: the RecommendationScore
ScoreCandidate ==
    /\ scPc = "input"
    /\ scPc' = "scored"
    /\ scOut' = BuildScore(1, scIn.state, scIn.weights, scIn.stats,
                           scIn.matchups, scIn.synergies)
    /\ UNCHANGED <<scIn, scTop, now, rlVars, cacheVars, normVars, recVars, opVars,
                   cfgVars, statVars, retryVars>>

\* getRecommendations' sort and slice(0, topN) with topN = 1 on that one score
ReturnTop ==
    /\ scPc = "scored"
    /\ scPc' = "returned"
    /\ scTop' = TopOf(<<scOut>>, 1)
    /\ UNCHANGED <<scIn, scOut, now, rlVars, cacheVars, normVars, recVars, opVars,
                   cfgVars, statVars, retryVars>>

InitScore ==
    /\ now = 0
    /\ RLInit
    /\ CacheInit
    /\ NormInit
    /\ RecInit
    /\ features \in [enableSynergyCalculation : BOOLEAN, enableCounterCalculation : BOOLEAN]
    /\ scPc = "input"
    /\ scIn \in ScoreInputs
    /\ scOut = Null
    /\ scTop = <<>>
    /\ StatInit
    /\ RetryInit
    /\ OpInit

NextScore ==
    \/ ScoreCandidate
    \/ ReturnTop

SpecScore == InitScore /\ [][NextScore]_vars

\* --- getChampionStats(1, 'middle') on drawn samples: n matches of champion 1
\* in the middle role, the first w of them won
MaxSampleLen == 31

SyntheticMatch(won) == IF won THEN 901 ELSE 902
SyntheticSample(n, w) == [k \in 1..n |-> SyntheticMatch(k <= w)]
SampleInputs ==
    {SyntheticSample(n, w) : n \in (MIN_MATCHES - 2)..MaxSampleLen, w \in 0..MaxSampleLen}
WinsIn(sample) == Len(SelectSeq(sample, LAMBDA id : id = SyntheticMatch(TRUE)))

\* getChampionStats on a cold cache, its getSampleMatches having accumulated
\* stSample: the sample is cached, the stats are computed from what
\* getSampleMatches returns and cached when there are any
GetChampionStats ==
    /\ stPc = "input"
    /\ stPc' = "first"
    /\ \E m1 \in {CacheSet(cache, SampleKey(1, "middle"), stSample, SampleTtl, now)} :
       \E gs \in {StatsFromSample(m1, 1, "middle", ReturnedSample(stSample))} :
          /\ stRet' = gs.stats
          /\ cache' = gs.cache
    /\ UNCHANGED <<stSample, now, rlVars, cleanupRunning, nextSweep, lastSet, cacheRet,
                   normVars, recVars, opVars, cfgVars, scoreVars, retryVars>>

\* getChampionStats called again, served from the cache
GetChampionStatsAgain ==
    /\ stPc = "first"
    /\ stPc' = "second"
    /\ \E gs \in {StatsFromCache(cache, 1, "middle")} :
          /\ stRet' = gs.stats
          /\ cache' = gs.cache
    /\ UNCHANGED <<stSample, now, rlVars, cleanupRunning, nextSweep, lastSet, cacheRet,
                   normVars, recVars, opVars, cfgVars, scoreVars, retryVars>>

InitStats ==
    /\ now = 0
    /\ RLInit
    /\ CacheInit
    /\ NormInit
    /\ RecInit
    /\ CfgInit
    /\ ScoreInit
    /\ stPc = "input"
    /\ stSample \in SampleInputs
    /\ stRet = Null
    /\ RetryInit
    /\ OpInit

NextStats ==
    \/ GetChampionStats
    \/ GetChampionStatsAgain

SpecStats == InitStats /\ [][NextStats]_vars

\* ========================================================================
\* DataService.retryRequest and the provider calls of RiotApiService
\* ========================================================================
\* config.dataService.retryAttempts, config.dataService.retryDelay
retryAttempts == 3
retryDelay == 2000

MaxRetryTicks == 7

\* how one HTTP request can end: a 2xx response, a 404 (axios rejects with
\* error.response.status = 404), or a transient failure (5xx, timeout)
HttpOutcomes == {"ok", "notFound", "transient"}
HttpError(outcome, attempt) ==
    [status |-> IF outcome = "notFound" THEN 404 ELSE 503, attempt |-> attempt]

BackoffDelayMut(attempt) == retryDelay * 2 ^ attempt
\* config.dataService.retryDelay * Math.pow(2, attempt - 1)
BackoffDelay(attempt) == retryDelay * 2 ^ (attempt - 1)

Event(ev, attempt, info) == [ev |-> ev, attempt |-> attempt, info |-> info, at |-> now]

\* retryRequest(requestFn): requestFn() is invoked
RetryStart ==
    /\ rtPc = "idle"
    /\ rtPc' = "calling"
    /\ rtAttempt' = 1
    /\ rtLog' = <<Event("call", 1, 0)>>
    /\ UNCHANGED <<rtWake, rtResult, rcLast, now, rlVars, cacheVars, normVars, recVars, opVars,
                   cfgVars, scoreVars, statVars>>

\* the awaited requestFn() settles; a rejection is rethrown at the last
\* attempt and otherwise arms the backoff timer
RequestSettled(outcome) ==
    /\ rtPc = "calling"
    /\ IF outcome = "ok"
       THEN /\ rtPc' = "resolved"
            /\ rtResult' = [kind |-> "value", attempt |-> rtAttempt]
            /\ rtLog' = Append(rtLog, Event("ok", rtAttempt, 0))
            /\ UNCHANGED rtWake
       ELSE IF rtAttempt >= retryAttempts
       THEN /\ rtPc' = "rejected"
            /\ rtResult' = [kind |-> "error", error |-> HttpError(outcome, rtAttempt)]
            /\ rtLog' = Append(rtLog, Event("fail", rtAttempt, HttpError(outcome, rtAttempt)))
            /\ UNCHANGED rtWake
       ELSE /\ rtPc' = "waiting"
            /\ rtWake' = now + BackoffDelay(rtAttempt)
            /\ rtLog' = rtLog \o <<Event("fail", rtAttempt, HttpError(outcome, rtAttempt)),
                                   Event("wait", rtAttempt, BackoffDelay(rtAttempt))>>
            /\ UNCHANGED rtResult
    /\ UNCHANGED <<rtAttempt, rcLast, now, rlVars, cacheVars, normVars, recVars, opVars,
                   cfgVars, scoreVars, statVars>>

\* the backoff setTimeout fires (never early, possibly late):
\* this.retryRequest(requestFn, attempt + 1) invokes requestFn() again
BackoffFired ==
    /\ rtPc = "waiting"
    /\ now >= rtWake
    /\ rtPc' = "calling"
    /\ rtAttempt' = rtAttempt + 1
    /\ rtLog' = Append(rtLog, Event("call", rtAttempt + 1, 0))
    /\ UNCHANGED <<rtWake, rtResult, rcLast, now, rlVars, cacheVars, normVars, recVars, opVars,
                   cfgVars, scoreVars, statVars>>

RetryTick ==
    /\ rtPc \in {"calling", "waiting"}
    /\ now + retryDelay \div 2 <= MaxRetryTicks * (retryDelay \div 2)
    /\ now' = now + retryDelay \div 2
    /\ UNCHANGED <<retryVars, rlVars, cacheVars, normVars, recVars, opVars,
                   cfgVars, scoreVars, statVars>>

\* the provider calls of RiotApiService (each after rateLimiter.waitForSlot())
RiotMethods ==
    {"getSummonerByName", "getSummonerByPuuid", "getMatchIds", "getMatch",
     "getFeaturedGames", "getCurrentGame", "getChallengerPlayers", "getMasterPlayers"}

\* the provider calls getHighEloPlayers and getSampleMatches make
SamplingMethods ==
    {"getChallengerPlayers", "getMasterPlayers", "getSummonerByPuuid", "getMatchIds",
     "getMatch"}

\* what the caller of a RiotApiService method gets for each way its single
\* client.get can end: the data, null, [] or a rethrown error
RiotResult(method, outcome) ==
    IF outcome = "ok" THEN "value"
    ELSE IF method \in {"getSummonerByName", "getCurrentGame"}
         THEN (IF outcome = "notFound" THEN "null" ELSE "throw")
    ELSE IF method \in {"getChallengerPlayers", "getMasterPlayers"}
         THEN "empty"
    ELSE "throw"

\* one RiotApiService method call: waitForSlot(), one client.get inside the
\* try, and the catch that settles the call (no method re-issues its request)
RiotCall(method, outcome) ==
    /\ rcLast' = [method |-> method, response |-> outcome, requests |-> 1,
                  result |-> RiotResult(method, outcome)]
    /\ rcLast' # rcLast
    /\ UNCHANGED <<rtPc, rtAttempt, rtWake, rtLog, rtResult, now, rlVars, cacheVars,
                   normVars, recVars, opVars, cfgVars, scoreVars, statVars>>

InitRetry ==
    /\ now = 0
    /\ RLInit
    /\ CacheInit
    /\ NormInit
    /\ RecInit
    /\ CfgInit
    /\ ScoreInit
    /\ StatInit
    /\ RetryInit
    /\ OpInit

NextRetry ==
    \/ RetryStart
    \/ \E outcome \in HttpOutcomes : RequestSettled(outcome)
    \/ BackoffFired
    \/ RetryTick
    \/ \E method \in RiotMethods, outcome \in HttpOutcomes : RiotCall(method, outcome)

SpecRetry == InitRetry /\ [][NextRetry]_vars


\* --- RiotApiService.getMatchesBatch, one awaited call at a time: the inputs
\* are lists of match ids, each fetch succeeds or throws
MaxBatchLen == 3
MaxBatchTicks == 6
BatchDelay == 50

BatchIds == {101, 102, 103}
BatchInputs == UNION {[1..n -> BatchIds] : n \in 0..MaxBatchLen}

BatchEvent(ev, id) == [ev |-> ev, id |-> id, at |-> now]

\* the for-of loop takes its next element, calling getMatch for it, or ends
\* and `matches` is returned
BatchAdvance(at, log) ==
    IF at < Len(gbIds)
    THEN /\ gbPc' = "fetching"
         /\ gbAt' = at + 1
         /\ gbLog' = Append(log, BatchEvent("start", gbIds[at + 1]))
    ELSE /\ gbPc' = "done"
         /\ gbAt' = at
         /\ gbLog' = log

\* getMatchesBatch(matchIds) is called
BatchStart(ids) ==
    /\ gbPc = "idle"
    /\ gbIds' = ids
    /\ gbMatches' = <<>>
    /\ IF ids = <<>>
       THEN /\ gbPc' = "done" /\ gbAt' = 0 /\ gbLog' = <<>>
       ELSE /\ gbPc' = "fetching" /\ gbAt' = 1
            /\ gbLog' = <<BatchEvent("start", ids[1])>>
    /\ UNCHANGED <<gbWake, now, rlVars, cacheVars, normVars, recVars,
                   cfgVars, scoreVars, statVars, retryVars, riotVars, liveVars, sampleVars, extraVars>>

MatchSettledMut(ok) ==
    /\ gbPc = "fetching"
    /\ IF ok
       THEN /\ gbMatches' = Append(gbMatches, gbIds[gbAt])
            /\ gbLog' = Append(gbLog, BatchEvent("ok", gbIds[gbAt]))
            /\ gbPc' = "pausing"
            /\ gbWake' = now + BatchDelay
            /\ UNCHANGED gbAt
       ELSE /\ gbPc' = "done"
            /\ gbLog' = Append(gbLog, BatchEvent("fail", gbIds[gbAt]))
            /\ UNCHANGED <<gbMatches, gbWake, gbAt>>
    /\ UNCHANGED <<gbIds, now, rlVars, cacheVars, normVars, recVars,
                   cfgVars, scoreVars, statVars, retryVars, riotVars, liveVars, sampleVars, extraVars>>
\* the awaited getMatch(matchId) settles: the match is pushed and the 50 ms
\* pause starts, or the catch skips the id and the loop goes on
MatchSettled(ok) ==
    /\ gbPc = "fetching"
    /\ IF ok
       THEN /\ gbMatches' = Append(gbMatches, gbIds[gbAt])
            /\ gbLog' = Append(gbLog, BatchEvent("ok", gbIds[gbAt]))
            /\ gbPc' = "pausing"
            /\ gbWake' = now + BatchDelay
            /\ UNCHANGED gbAt
       ELSE /\ BatchAdvance(gbAt, Append(gbLog, BatchEvent("fail", gbIds[gbAt])))
            /\ UNCHANGED <<gbMatches, gbWake>>
    /\ UNCHANGED <<gbIds, now, rlVars, cacheVars, normVars, recVars,
                   cfgVars, scoreVars, statVars, retryVars, riotVars, liveVars, sampleVars, extraVars>>

\* the pause's setTimeout fires (never early, possibly late)
PauseOver ==
    /\ gbPc = "pausing"
    /\ now >= gbWake
    /\ BatchAdvance(gbAt, gbLog)
    /\ UNCHANGED <<gbIds, gbMatches, gbWake, now, rlVars, cacheVars, normVars, recVars,
                   cfgVars, scoreVars, statVars, retryVars, riotVars, liveVars, sampleVars, extraVars>>

BatchTick ==
    /\ gbPc \in {"fetching", "pausing"}
    /\ now + BatchDelay \div 2 <= MaxBatchTicks * (BatchDelay \div 2)
    /\ now' = now + BatchDelay \div 2
    /\ UNCHANGED <<batchVars, rlVars, cacheVars, normVars, recVars,
                   cfgVars, scoreVars, statVars, retryVars, riotVars, liveVars, sampleVars, extraVars>>

InitBatch ==
    /\ now = 0
    /\ RLInit
    /\ CacheInit
    /\ NormInit
    /\ RecInit
    /\ AsideInit

NextBatch ==
    \/ \E ids \in BatchInputs : BatchStart(ids)
    \/ \E ok \in BOOLEAN : MatchSettled(ok)
    \/ PauseOver
    \/ BatchTick

SpecBatch == InitBatch /\ [][NextBatch]_vars


\* --- RiotApiService: callers run its provider methods concurrently; every
\* method awaits rateLimiter.waitForSlot() and then calls client.get
NumRiotCallers == 2
MaxRiotCalls == 21
MaxRiotTicks == 3
RiotCallers == 1..NumRiotCallers
RiotMaxRequests == 20
RiotTimeWindow == 1000

UsesLimiterMut(method) == method # "getMatch"
\* `await this.rateLimiter.waitForSlot()` is the first statement of the method
UsesLimiter(method) == method \in RiotMethods

\* the provider methods that await the limiter, and those that do not
LimitedMethods == {method \in RiotMethods : UsesLimiter(method)}
UnlimitedMethods == RiotMethods \ LimitedMethods

\* the continuation after waitForSlot() has returned: client.get(url)
IssueWhenAdmitted(c) ==
    issued' = IF rlPc'[c] = "admitted" THEN Append(issued, now) ELSE issued

\* caller c, whose previous call (if any) has settled, invokes one of the
\* provider methods; the method is kept for as long as the call waits (the
\* callers are interchangeable: the next call is made by the lowest-numbered
\* caller that is not waiting)
RiotInvoke(c) ==
    /\ rlPc[c] \in {"idle", "admitted"}
    /\ \A d \in RiotCallers : d < c => rlPc[d] = "sleeping"
    /\ Len(issued) < MaxRiotCalls
    /\ \/ /\ LimitedMethods # {}
          /\ RLEvaluate(c)
          /\ IssueWhenAdmitted(c)
          /\ IF rlPc'[c] = "admitted"
             THEN rqMethod' = [rqMethod EXCEPT ![c] = "none"]
             ELSE \E method \in LimitedMethods :
                      rqMethod' = [rqMethod EXCEPT ![c] = method]
       \/ /\ UnlimitedMethods # {}
          /\ issued' = Append(issued, now)
          /\ UNCHANGED <<queue, rlPc, rlWake, admitted, rqMethod>>
    /\ UNCHANGED <<now, maxRequests, timeWindow, cacheVars, normVars, recVars,
                   cfgVars, scoreVars, statVars, retryVars, batchVars, liveVars, sampleVars, extraVars>>

\* the setTimeout of a waiting method call fires (never early, possibly late):
\* waitForSlot() re-evaluates, and the method goes on when it returns
RiotTimerFired(c) ==
    /\ rlPc[c] = "sleeping"
    /\ now >= rlWake[c]
    /\ RLEvaluate(c)
    /\ IssueWhenAdmitted(c)
    /\ rqMethod' = [rqMethod EXCEPT ![c] = IF rlPc'[c] = "admitted" THEN "none" ELSE @]
    /\ UNCHANGED <<now, maxRequests, timeWindow, cacheVars, normVars, recVars,
                   cfgVars, scoreVars, statVars, retryVars, batchVars, liveVars, sampleVars, extraVars>>

RiotTick ==
    /\ now + timeWindow \div 2 <= MaxRiotTicks * (timeWindow \div 2)
    /\ now' = now + timeWindow \div 2
    /\ UNCHANGED <<rlVars, riotVars, cacheVars, normVars, recVars,
                   cfgVars, scoreVars, statVars, retryVars, batchVars, liveVars, sampleVars, extraVars>>

\* new RateLimiter(20, 1000)
InitRiot ==
    /\ now = 0
    /\ maxRequests = RiotMaxRequests /\ timeWindow = RiotTimeWindow
    /\ queue = <<>>
    /\ rlPc = [c \in Callers |-> "idle"]
    /\ rlWake = [c \in Callers |-> 0]
    /\ admitted = <<>>
    /\ CacheInit
    /\ NormInit
    /\ RecInit
    /\ AsideInit

NextRiot ==
    \/ \E c \in RiotCallers : RiotInvoke(c)
    \/ \E c \in RiotCallers : RiotTimerFired(c)
    \/ RiotTick

SpecRiot == InitRiot /\ [][NextRiot]_vars


\* --- RateLimiter, every waiting caller followed to its admission: finitely
\* many callers, each with one waitForSlot() call; time goes on for as long as
\* a caller waits, and a due timer fires before the clock moves again
LiveMaxRequests == {1, 2}
LiveTimeWindow == 1000

LiveWaitForSlotMut(c) ==
    /\ rlPc[c] = "idle"
    /\ \A d \in Callers : d < c => rlPc[d] # "idle"
    /\ IF \E d \in Callers : rlPc[d] = "sleeping"
       THEN /\ queue' = RLPrune(queue, now, timeWindow)
            /\ rlPc' = [rlPc EXCEPT ![c] = "sleeping"]
            /\ rlWake' = [rlWake EXCEPT ![c] = now + SlotBuffer]
            /\ UNCHANGED admitted
       ELSE RLEvaluate(c)
    /\ waits' = [waits EXCEPT ![c] = IF rlPc'[c] = "sleeping" THEN 1 ELSE 0]
    /\ UNCHANGED <<now, maxRequests, timeWindow, cacheVars, normVars, recVars,
                   cfgVars, scoreVars, statVars, retryVars, batchVars, riotVars, sampleVars, extraVars>>
\* waitForSlot() entered by caller c (the callers are interchangeable: they
\* are numbered in the order of their calls)
LiveWaitForSlot(c) ==
    /\ rlPc[c] = "idle"
    /\ \A d \in Callers : d < c => rlPc[d] # "idle"
    /\ RLEvaluate(c)
    /\ waits' = [waits EXCEPT ![c] = IF rlPc'[c] = "sleeping" THEN 1 ELSE 0]
    /\ UNCHANGED <<now, maxRequests, timeWindow, cacheVars, normVars, recVars,
                   cfgVars, scoreVars, statVars, retryVars, batchVars, riotVars, sampleVars, extraVars>>

LiveTimerFiredMut(c) ==
    /\ rlPc[c] = "sleeping"
    /\ now >= rlWake[c]
    /\ queue' = Append(RLPrune(queue, now, timeWindow), now)
    /\ rlPc' = [rlPc EXCEPT ![c] = "admitted"]
    /\ rlWake' = [rlWake EXCEPT ![c] = 0]
    /\ admitted' = Append(admitted, now)
    /\ UNCHANGED <<now, maxRequests, timeWindow, waits, cacheVars, normVars, recVars,
                   cfgVars, scoreVars, statVars, retryVars, batchVars, riotVars, sampleVars, extraVars>>
\* the setTimeout of caller c fires and `return this.waitForSlot()` evaluates
\* the window again
LiveTimerFired(c) ==
    /\ rlPc[c] = "sleeping"
    /\ now >= rlWake[c]
    /\ RLEvaluate(c)
    /\ waits' = [waits EXCEPT ![c] = IF rlPc'[c] = "sleeping" THEN @ + 1 ELSE @]
    /\ UNCHANGED <<now, maxRequests, timeWindow, cacheVars, normVars, recVars,
                   cfgVars, scoreVars, statVars, retryVars, batchVars, riotVars, sampleVars, extraVars>>

LiveTick ==
    /\ \A c \in Callers : rlPc[c] = "sleeping" => now < rlWake[c]
    /\ \/ now + timeWindow \div 2 <= MaxWindows * timeWindow
       \/ \E c \in Callers : rlPc[c] = "sleeping"
    /\ now' = now + timeWindow \div 2
    /\ UNCHANGED <<rlVars, cacheVars, normVars, recVars,
                   cfgVars, scoreVars, statVars, retryVars, opVars>>

InitRLLive ==
    /\ now = 0
    /\ maxRequests \in LiveMaxRequests
    /\ timeWindow = LiveTimeWindow
    /\ queue = <<>>
    /\ rlPc = [c \in Callers |-> "idle"]
    /\ rlWake = [c \in Callers |-> 0]
    /\ admitted = <<>>
    /\ CacheInit
    /\ NormInit
    /\ RecInit
    /\ AsideInit

NextRLLive ==
    \/ \E c \in Callers : LiveWaitForSlot(c)
    \/ \E c \in Callers : LiveTimerFired(c)
    \/ LiveTick

\* the event loop runs a due timer callback, and time keeps advancing
SpecRLLive ==
    /\ InitRLLive
    /\ [][NextRLLive]_vars
    /\ \A c \in Callers : WF_vars(LiveTimerFired(c))
    /\ WF_vars(LiveTick)


\* --- getSampleMatches on a cache miss, one provider answer at a time
MaxPoolLen == 12
MaxSampleFailures == 2

\* pools as getHighEloPlayers may return them: none, one, fewer and more
\* players than the loop takes, in two orders
PoolUp(n) == [i \in 1..n |-> i]
PoolDown(n) == [i \in 1..n |-> n + 1 - i]
SamplePools == {PoolUp(n) : n \in {0, 1, MaxPoolLen - 3, MaxPoolLen}}
                   \cup {PoolDown(n) : n \in {MaxPoolLen - 3, MaxPoolLen}}
\* relevantMatches.length for one player; the code does not cut the
\* provider's list of match ids to the 20 it asked for
RelevantCounts == {0, MatchesPerPlayer, SAMPLE_SIZE \div 2}
SummonerOutcomes == {"ok", "null", "error"}
MatchIdsOutcomes == {"ok", "error"}

SamplePlayersMut(pool) == pool
\* highEloPlayers.slice(0, 10)
SamplePlayers(pool) == Slice0(pool, TopPlayers)

SkippedSoFar == SeqCount(smLog, LAMBDA e : e[1] = "skipped")

\* after the loop: cacheService.set(cacheKey, allMatches, 7200000) and
\* return allMatches.slice(0, SAMPLE_SIZE)
SampleFinish(i, n, log) ==
    /\ smPc' = "done"
    /\ smIdx' = i
    /\ smMatches' = n
    /\ smLog' = log
    /\ smResult' = [cached |-> n, returned |-> Min(n, SAMPLE_SIZE)]

\* the for-of loop takes element i of the slice, if there is one, and calls
\* riotApiService.getSummonerByPuuid(summonerId)
SampleTake(players, i, n, log) ==
    IF i > Len(players)
    THEN SampleFinish(i, n, log)
    ELSE /\ smPc' = "summoner"
         /\ smIdx' = i
         /\ smMatches' = n
         /\ smLog' = Append(log, <<"getSummonerByPuuid", players[i]>>)
         /\ smResult' = smResult

\* getSampleMatches(championId, role) misses the cache and obtains the pool
SampleStart(pool) ==
    /\ smPc = "idle"
    /\ smPool' = pool
    /\ SampleTake(SamplePlayers(pool), 1, 0, <<>>)
    /\ UNCHANGED <<now, rlVars, cacheVars, normVars, recVars, cfgVars, scoreVars,
                   statVars, retryVars, batchVars, riotVars, liveVars, extraVars>>

\* getSummonerByPuuid settles: `if (!summoner) continue`, a rejection is
\* caught and the loop continues, otherwise getMatchIds(puuid, 20, 420)
SummonerSettled(outcome) ==
    /\ smPc = "summoner"
    /\ outcome # "ok" => SkippedSoFar < MaxSampleFailures
    /\ LET players == SamplePlayers(smPool)
           p == players[smIdx]
       IN  IF outcome = "ok"
           THEN /\ smPc' = "matchIds"
                /\ smLog' = Append(smLog, <<"getMatchIds", p>>)
                /\ UNCHANGED <<smIdx, smMatches, smResult>>
           ELSE SampleTake(players, smIdx + 1, smMatches, Append(smLog, <<"skipped", p>>))
    /\ UNCHANGED <<smPool, now, rlVars, cacheVars, normVars, recVars, cfgVars, scoreVars,
                   statVars, retryVars, batchVars, riotVars, liveVars, extraVars>>

MatchIdsSettledMut(outcome, n) ==
    /\ smPc = "matchIds"
    /\ outcome # "ok" => SkippedSoFar < MaxSampleFailures
    /\ LET players == SamplePlayers(smPool)
           p == players[smIdx]
       IN  IF outcome = "ok"
           THEN SampleTake(players, smIdx + 1, smMatches + n, smLog)
           ELSE SampleFinish(smIdx, smMatches, Append(smLog, <<"skipped", p>>))
    /\ UNCHANGED <<smPool, now, rlVars, cacheVars, normVars, recVars, cfgVars, scoreVars,
                   statVars, retryVars, batchVars, riotVars, liveVars, extraVars>>
\* getMatchIds settles: a rejection is caught and the loop continues; otherwise
\* getMatchesBatch and the filter give n relevant matches, which are pushed,
\* and `if (allMatches.length >= this.SAMPLE_SIZE) break`
MatchIdsSettled(outcome, n) ==
    /\ smPc = "matchIds"
    /\ outcome # "ok" => SkippedSoFar < MaxSampleFailures
    /\ LET players == SamplePlayers(smPool)
           p == players[smIdx]
       IN  IF outcome = "ok"
           THEN IF smMatches + n >= SAMPLE_SIZE
                THEN SampleFinish(smIdx, smMatches + n, smLog)
                ELSE SampleTake(players, smIdx + 1, smMatches + n, smLog)
           ELSE SampleTake(players, smIdx + 1, smMatches, Append(smLog, <<"skipped", p>>))
    /\ UNCHANGED <<smPool, now, rlVars, cacheVars, normVars, recVars, cfgVars, scoreVars,
                   statVars, retryVars, batchVars, riotVars, liveVars, extraVars>>

InitSample ==
    /\ now = 0
    /\ RLInit
    /\ CacheInit
    /\ NormInit
    /\ RecInit
    /\ AsideInit

NextSample ==
    \/ \E pool \in SamplePools : SampleStart(pool)
    \/ \E outcome \in SummonerOutcomes : SummonerSettled(outcome)
    \/ \E outcome \in MatchIdsOutcomes, n \in RelevantCounts : MatchIdsSettled(outcome, n)

SpecSample == InitSample /\ [][NextSample]_vars


\* --- StatsAggregatorService over time: getChampionStats, getMatchupData and
\* getSynergyData for champion 1 in the middle role, the cache being cleared
\* and its entries expiring in between
MaxAggTicks == 2
MaxAggClears == 1
AggChampions == {1}
AggChampion == CHOOSE c \in AggChampions : TRUE
AggRole == "middle"
AggOpponents == {6}
AggAllies == {6}
AggStep == SampleTtl

\* provider requests of one sampling run over `pool`: per sampled player the
\* summoner lookup, the match-id listing and one request per listed match
RunRequests(pool) == Len(Slice0(pool, TopPlayers)) * (2 + MatchesPerPlayer)

\* getHighEloPlayers(): [players, cache, requests]
GetHighEloPlayers(m, world, t) ==
    LET g == CacheGet(m, PoolKey, t)
        m1 == CacheAfterGet(m, PoolKey, t)
    IN  IF g.hit THEN [players |-> g.data, cache |-> m1, requests |-> 0]
        ELSE [players |-> world, cache |-> CacheSet(m1, PoolKey, world, PoolTtl, t),
              requests |-> 2]

GetSampleMatchesMut(m, world, championId, role, t) ==
    LET g == CacheGet(m, SampleKey(championId, role), t)
        m1 == CacheAfterGet(m, SampleKey(championId, role), t)
        hp == GetHighEloPlayers(m1, world, t)
    IN  IF g.hit
        THEN [ret |-> g.data, cache |-> m1, sampled |-> FALSE, requests |-> 0]
        ELSE [ret |-> ReturnedSample(SampledMatches(hp.players, championId, role, {}, {})),
              cache |-> hp.cache, sampled |-> TRUE,
              requests |-> hp.requests + RunRequests(hp.players)]

\* getSampleMatches(championId, role): a hit returns the cached allMatches, a
\* miss runs the sampling loop, caches allMatches and returns its first
\* SAMPLE_SIZE elements
GetSampleMatches(m, world, championId, role, t) ==
    LET g == CacheGet(m, SampleKey(championId, role), t)
        m1 == CacheAfterGet(m, SampleKey(championId, role), t)
    IN  IF g.hit
        THEN [ret |-> g.data, cache |-> m1, sampled |-> FALSE, requests |-> 0]
        ELSE The({The({[ret |-> ReturnedSample(allMatches),
                        cache |-> CacheSet(hp.cache, SampleKey(championId, role),
                                           allMatches, SampleTtl, t),
                        sampled |-> TRUE,
                        requests |-> hp.requests + RunRequests(hp.players)] :
                          allMatches \in {SampledMatches(hp.players, championId, role,
                                                         {}, {})}}) :
                     hp \in {GetHighEloPlayers(m1, world, t)}})

\* what a query leaves in the history
Query(op, other, g, gs, ret) ==
    [op |-> op, other |-> other, hit |-> g.hit, ret |-> ret,
     sampled |-> ~g.hit /\ gs.sampled,
     sampleHit |-> ~g.hit /\ ~gs.sampled,
     sample |-> IF g.hit THEN <<>> ELSE gs.ret]

AggUnchanged ==
    UNCHANGED <<now, agPool, agClears, rlVars, cleanupRunning, nextSweep, lastSet, cacheRet,
                normVars, recVars, cfgVars, scoreVars, statVars, retryVars,
                batchVars, riotVars, liveVars, sampleVars, lcuVars, hookVars>>

\* the sample a query obtains when its own key misses
SampleFor(g, key) ==
    IF g.hit THEN [ret |-> <<>>, cache |-> cache, sampled |-> FALSE, requests |-> 0]
    ELSE GetSampleMatches(CacheAfterGet(cache, key, now), agPool, AggChampion, AggRole, now)

\* getChampionStats(1, 'middle')
AggGetChampionStats ==
    \E key \in {StatsKey(AggChampion, AggRole)} :
    \E g \in {CacheGet(cache, key, now)} :
    \E gs \in {SampleFor(g, key)} :
    \E st \in {IF g.hit THEN [stats |-> g.data, cache |-> cache]
                ELSE StatsFromSample(gs.cache, AggChampion, AggRole, gs.ret)} :
        /\ cache' = st.cache
        /\ agLast' = Query("stats", 0, g, gs, st.stats)
        /\ agCalls' = agCalls + gs.requests
        /\ agRunAt' = IF gs.sampled THEN now ELSE agRunAt
        /\ agMissRet' = IF gs.sampled THEN gs.ret ELSE agMissRet
        /\ UNCHANGED agSource
        /\ AggUnchanged

\* getMatchupData(1, o, 'middle') and getSynergyData(1, a, 'middle'): the own
\* cached entry if there is one, else a value computed from what
\* getSampleMatches returns, cached unless it is null
AggDerived(op, other, key, v(_)) ==
    \E g \in {CacheGet(cache, key, now)} :
    \E gs \in {SampleFor(g, key)} :
    \E ret \in {IF g.hit THEN g.data ELSE v(gs.ret)} :
        /\ cache' = IF g.hit THEN cache
                    ELSE IF IsNull(ret) THEN gs.cache
                    ELSE CacheSet(gs.cache, key, ret, SampleTtl, now)
        /\ agLast' = Query(op, other, g, gs, ret)
        /\ agCalls' = agCalls + gs.requests
        /\ agRunAt' = IF gs.sampled THEN -1 ELSE agRunAt
        /\ agMissRet' = IF gs.sampled THEN gs.ret ELSE agMissRet
        /\ agSource' = IF g.hit \/ IsNull(ret) THEN agSource
                       ELSE MapPut(agSource, key, gs.ret)
        /\ AggUnchanged

AggGetMatchupData(o) ==
    AggDerived("matchup", o, MatchupKey(AggChampion, o, AggRole),
               LAMBDA matches : MatchupFromSample(AggChampion, o, AggRole, matches))

AggGetSynergyData(a) ==
    AggDerived("synergy", a, SynergyKey(AggChampion, a, AggRole),
               LAMBDA matches : SynergyFromSample(AggChampion, a, AggRole, matches))

\* POST /api/cache/clear
AggClear ==
    /\ cache # EmptyMap
    /\ agClears < MaxAggClears
    /\ agClears' = agClears + 1
    /\ cache' = EmptyMap
    /\ agRunAt' = -1
    /\ agSource' = EmptyMap
    /\ agLast' = [op |-> "clear"]
    /\ UNCHANGED <<agCalls, agMissRet, now, agPool, rlVars, cleanupRunning, nextSweep,
                   lastSet, cacheRet, normVars, recVars, cfgVars, scoreVars, statVars,
                   retryVars, batchVars, riotVars, liveVars, sampleVars, lcuVars,
                   hookVars>>

AggTick ==
    /\ now + AggStep <= MaxAggTicks * AggStep
    /\ now' = now + AggStep
    /\ UNCHANGED <<rlVars, cacheVars, normVars, recVars, cfgVars, scoreVars, statVars,
                   retryVars, batchVars, riotVars, liveVars, sampleVars, extraVars>>

InitAgg ==
    /\ now = 0
    /\ RLInit
    /\ CacheInit
    /\ NormInit
    /\ RecInit
    /\ CfgInit
    /\ ScoreInit
    /\ StatInit
    /\ RetryInit
    /\ BatchInit /\ RiotInit /\ LiveInit /\ SampleInit
    /\ agPool \in AggPools
    /\ agCalls = 0
    /\ agRunAt = -1
    /\ agSource = EmptyMap
    /\ agMissRet = <<>>
    /\ agClears = 0
    /\ agLast = NoQuery
    /\ LcuInit /\ HookInit

NextAgg ==
    \/ AggGetChampionStats
    \/ \E o \in AggOpponents : AggGetMatchupData(o)
    \/ \E a \in AggAllies : AggGetSynergyData(a)
    \/ AggClear
    \/ AggTick

SpecAgg == InitAgg /\ [][NextAgg]_vars

\* ========================================================================
\* LCUService: connection to the League Client, reconnect timer, destroy()
\* ========================================================================
MaxLcuTicks == 3
MaxLcuAttempts == 3
reconnectInterval == 5000

exceptLcu ==
    <<rlVars, cacheVars, normVars, recVars, cfgVars, scoreVars, statVars, retryVars,
      batchVars, riotVars, liveVars, sampleVars, aggVars, hookVars>>

\* scheduleReconnect(): nothing when this.reconnectTimer is set, else a timer
\* of reconnectInterval
ScheduleReconnect ==
    IF reconnectTimer # "null"
    THEN UNCHANGED <<reconnectTimer, lcuDue>>
    ELSE /\ reconnectTimer' = "pending"
         /\ lcuDue' = now + reconnectInterval

\* the socket's 'open' event
LcuSocketOpen ==
    /\ ws = "connecting"
    /\ lcuClient = "up"
    /\ ws' = "open"
    /\ isConnected' = TRUE
    /\ UNCHANGED <<now, reconnectTimer, lcuDue, lcuClient, lcuDestroyed, lcuAttempts,
                   lcuAfter, exceptLcu>>

\* the socket's 'close' event: the handshake failed, the client went away, or
\* close() was called on the socket
LcuSocketClose ==
    /\ ws \in {"connecting", "open", "closing"}
    /\ ws' = "closed"
    /\ isConnected' = FALSE
    /\ ScheduleReconnect
    /\ UNCHANGED <<now, lcuClient, lcuDestroyed, lcuAttempts, lcuAfter, exceptLcu>>

\* the reconnect timer fires: readLockfile() reads the file synchronously, so
\* the attempt runs to the `new WebSocket` or to its catch in one piece
LcuTimerFired ==
    /\ reconnectTimer = "pending"
    /\ now >= lcuDue
    /\ lcuAttempts < MaxLcuAttempts
    /\ lcuAttempts' = lcuAttempts + 1
    /\ lcuAfter' = IF lcuDestroyed THEN lcuAfter + 1 ELSE lcuAfter
    /\ IF lcuClient = "up"
       THEN /\ ws' = "connecting"
            /\ reconnectTimer' = "null"
            /\ UNCHANGED lcuDue
       ELSE /\ reconnectTimer' = "pending"
            /\ lcuDue' = now + reconnectInterval
            /\ UNCHANGED ws
    /\ UNCHANGED <<now, isConnected, lcuClient, lcuDestroyed, exceptLcu>>

\* destroy(): clearTimeout on a set timer (the field keeps the handle),
\* close() on the socket
LcuDestroy ==
    /\ ~lcuDestroyed
    /\ lcuDestroyed' = TRUE
    /\ reconnectTimer' = IF reconnectTimer = "pending" THEN "cleared" ELSE reconnectTimer
    /\ ws' = IF ws \in {"connecting", "open"} THEN "closing" ELSE ws
    /\ UNCHANGED <<now, isConnected, lcuDue, lcuClient, lcuAttempts, lcuAfter, exceptLcu>>

\* the League Client is started or exits
LcuClientToggle ==
    /\ lcuClient' = IF lcuClient = "up" THEN "down" ELSE "up"
    /\ UNCHANGED <<now, ws, reconnectTimer, isConnected, lcuDue, lcuDestroyed,
                   lcuAttempts, lcuAfter, exceptLcu>>

LcuTick ==
    /\ now + reconnectInterval <= MaxLcuTicks * reconnectInterval
    /\ now' = now + reconnectInterval
    /\ UNCHANGED <<lcuVars, exceptLcu>>

\* after `new LCUService()`: init() has read the lockfile and opened the
\* socket, or has failed and scheduled a reconnect
InitLcu ==
    /\ now = 0
    /\ RLInit
    /\ CacheInit
    /\ NormInit
    /\ RecInit
    /\ CfgInit
    /\ ScoreInit
    /\ StatInit
    /\ RetryInit
    /\ BatchInit /\ RiotInit /\ LiveInit /\ SampleInit
    /\ AggInit /\ HookInit
    /\ lcuClient \in {"up", "down"}
    /\ ws = IF lcuClient = "up" THEN "connecting" ELSE "none"
    /\ reconnectTimer = IF lcuClient = "up" THEN "null" ELSE "pending"
    /\ lcuDue = IF lcuClient = "up" THEN 0 ELSE reconnectInterval
    /\ isConnected = FALSE
    /\ lcuDestroyed = FALSE
    /\ lcuAttempts = 0
    /\ lcuAfter = 0

NextLcu ==
    \/ LcuSocketOpen
    \/ LcuSocketClose
    \/ LcuTimerFired
    \/ LcuDestroy
    \/ LcuClientToggle
    \/ LcuTick

SpecLcu == InitLcu /\ [][NextLcu]_vars

\* ========================================================================
\* useRecommendations: one request per change of the hook's arguments
\* ========================================================================
MaxHookRequests == 3
\* the champion-select states the polling delivers: the champion the enemy
\* has picked
HookDrafts == {1, 2}
HookOutcomes == {"ok", "empty", "error"}

exceptHook ==
    <<now, rlVars, cacheVars, normVars, recVars, cfgVars, scoreVars, statVars, retryVars,
      batchVars, riotVars, liveVars, sampleVars, aggVars, lcuVars>>

\* response.recommendations of the request made for `draft`: the champions
\* that are still available
RecommendationsFor(draft) ==
    SelectSeq(<<1, 2, 3>>, LAMBDA ch : ch # draft)

\* a render with changed arguments (the 2 s polling hands over a new
\* championSelect object, or the role or the weights change): the effect
\* runs fetchRecommendations, which returns at once without championSelect or
\* role and else sets isLoading and sends the request
HookRender(ready, draft) ==
    /\ Len(hkIssued) < MaxHookRequests
    /\ hkProps' = [ready |-> ready, draft |-> draft]
    /\ IF ~ready
       THEN /\ hkProps' # hkProps
            /\ UNCHANGED <<hkIssued, hkInFlight, hkIsLoading>>
       ELSE /\ hkIssued' = Append(hkIssued, draft)
            /\ hkInFlight' = hkInFlight \cup {Len(hkIssued) + 1}
            /\ hkIsLoading' = TRUE
    /\ UNCHANGED <<hkFailed, hkRecommendations, hkError, exceptHook>>

\* the await of request i settles: a response with recommendations, one
\* without, or a rejection
HookSettled(i, outcome) ==
    /\ i \in hkInFlight
    /\ hkInFlight' = hkInFlight \ {i}
    /\ hkFailed' = IF outcome = "ok" THEN hkFailed ELSE hkFailed \cup {i}
    /\ hkRecommendations' = IF outcome = "ok" THEN RecommendationsFor(hkIssued[i])
                            ELSE hkRecommendations
    /\ hkError' = (outcome = "error")
    /\ hkIsLoading' = FALSE
    /\ UNCHANGED <<hkProps, hkIssued, exceptHook>>

InitHook ==
    /\ now = 0
    /\ RLInit
    /\ CacheInit
    /\ NormInit
    /\ RecInit
    /\ CfgInit
    /\ ScoreInit
    /\ StatInit
    /\ RetryInit
    /\ BatchInit /\ RiotInit /\ LiveInit /\ SampleInit
    /\ AggInit /\ LcuInit
    /\ HookInit

NextHook ==
    \/ \E ready \in BOOLEAN, draft \in HookDrafts : HookRender(ready, draft)
    \/ \E i \in 1..MaxHookRequests, outcome \in HookOutcomes : HookSettled(i, outcome)

SpecHook == InitHook /\ [][NextHook]_vars


\* ========================================================================
\* Claims
\* ========================================================================

\* C1: among any maxRequests+1 admissions recorded by waitForSlot() (under any
\* interleaving of callers), the first and the last timestamps are at least
\* timeWindow apart, so no trailing window holds more than maxRequests
\* admissions; with maxRequests = 3 and timeWindow = 1000 the fourth admission
\* comes no earlier than 1000 ms after the first.
C1_WindowNeverExceeded ==
    \A i \in 1..Len(admitted) :
        (i + maxRequests <= Len(admitted))
            => admitted[i + maxRequests] - admitted[i] >= timeWindow

\* C1 witness: maxRequests = 3, timeWindow = 1000, four callers called back to
\* back, and the fourth admission has been recorded after a wait.
C1_Witness ==
    /\ maxRequests = 3 /\ timeWindow = 1000
    /\ Len(admitted) >= 4
    /\ admitted[1] = admitted[3]
    /\ admitted[4] >= admitted[1] + 1000

\* C2: after set(k, v, ttl) at time t with no later set/delete/clear/destroy of
\* k, get(k) at the current time returns v when now <= t + ttl and absent when
\* now > t + ttl, whatever sweeps, gets or has-checks ran in between; and a
\* get never returned a value whose expiresAt had passed.
C2_GetHonoursTtl ==
    /\ \A k \in DOMAIN lastSet :
          CacheGet(cache, k, now) =
              IF now <= lastSet[k].at + lastSet[k].ttl
              THEN [hit |-> TRUE, data |-> lastSet[k].data]
              ELSE [hit |-> FALSE]
    /\ (cacheRet.op = "get" /\ cacheRet.ret.hit) => cacheRet.at <= cacheRet.expiresAt

\* C2 witness: a get at exactly t + ttl (ttl > 0) returned the value, after a
\* sweep has run while another key had been set.
C2_Witness ==
    /\ cacheRet.op = "get" /\ cacheRet.ret.hit
    /\ cacheRet.at = cacheRet.expiresAt
    /\ cacheRet.at > 0
    /\ nextSweep > CleanupPeriod

\* C2 witness (expiry side): a key was set, its ttl has passed, no sweep has
\* removed it yet, and get would report it absent.
C2_WitnessExpired ==
    \E k \in DOMAIN lastSet :
        /\ now > lastSet[k].at + lastSet[k].ttl
        /\ k \in DOMAIN cache
        /\ ~CacheGet(cache, k, now).hit

\* C6: for every partial override whose components, merged onto the defaults,
\* have a positive sum, normalizeWeights returns four components that sum to 1
\* and keep the proportions of the merged input (out[k] * sum = merged[k]);
\* {4,1,3,2} gives {0.4,0.1,0.3,0.2}; and normalizing the result again returns
\* it unchanged.
C6_NormalizeSumsToOne ==
    LET merged == MergeWeights(DefaultWeights, nwIn)
        sum == WeightSum(merged)
    IN  (nwPc # "input" /\ RatLt(Num(0), sum)) =>
            /\ WeightSum(nwOut) = Num(1)
            /\ \A k \in WeightKeys : RatMul(nwOut[k], sum) = merged[k]
            /\ (nwIn = [winRate |-> Num(4), pickRate |-> Num(1),
                        counterScore |-> Num(3), synergyScore |-> Num(2)])
                  => nwOut = [winRate |-> <<2, 5>>, pickRate |-> <<1, 10>>,
                              counterScore |-> <<3, 10>>, synergyScore |-> <<1, 5>>]
            /\ (nwPc = "twice" => nwOut2 = nwOut)

\* C6 witness: a partial override (winRate only) with an unnormalized merged
\* sum has been normalized twice.
C6_Witness ==
    /\ nwPc = "twice"
    /\ DOMAIN nwIn = {"winRate"}
    /\ nwIn.winRate = Num(3)
    /\ nwOut.winRate = <<5, 6>>

\* ------------------------------------------------------------------------
\* Vocabulary of the claims about one recommendation request
\* ------------------------------------------------------------------------
Ids(recs) == {recs[i].championId : i \in 1..Len(recs)}
\* getRecommendations resolved (and the handler answered 200)
Answered == reqPc = "done" /\ response.status \in {"200", "resolved"}
\* the entry of candidate d among the scores, Null when it was dropped
ScoreOf(scores, d) ==
    IF d \in Ids(scores)
    THEN scores[CHOOSE i \in 1..Len(scores) : scores[i].championId = d]
    ELSE Null

\* C3: when getRecommendations has resolved with topN >= 1, the returned list
\* is in non-increasing totalScore order, its length is min(topN, number of
\* surviving candidates), its entries are distinct surviving candidates, and
\* every surviving candidate left out has a totalScore <= that of every
\* returned one.
C3_SortedTopN ==
    (Answered /\ svc.topN >= 1) =>
        LET R == response.recommendations
            S == allScores
        IN  /\ \A i \in 1..(Len(R) - 1) : RatLe(R[i + 1].totalScore, R[i].totalScore)
            /\ Len(R) = Min(svc.topN, Len(S))
            /\ \A i \in 1..Len(R) : \E j \in 1..Len(S) : S[j] = R[i]
            /\ \A i, j \in 1..Len(R) : R[i].championId = R[j].championId => i = j
            /\ \A j \in 1..Len(S) :
                  S[j].championId \notin Ids(R)
                      => \A i \in 1..Len(R) : RatLe(S[j].totalScore, R[i].totalScore)

\* C3 witness: topN = 2 with three survivors scored in catalog order 1, 3, 2;
\* the list returned is champion 3 then champion 1, champion 2 is left out.
C3_Witness ==
    /\ Answered
    /\ svc.topN = 2
    /\ Len(allScores) = 3
    /\ allScores[1].championId = 1
    /\ Len(response.recommendations) = 2
    /\ response.recommendations[1].championId = 3
    /\ response.recommendations[2].championId = 1
    /\ RatLt(response.recommendations[2].totalScore, response.recommendations[1].totalScore)

\* C4: once getRecommendations has its arguments, no champion of myTeam,
\* enemyTeam or bannedChampions has its stats requested, is scored or is
\* returned; and when every catalog champion is picked or banned the call
\* resolves with the empty list.
C4_PickedExcluded ==
    (reqPc \in {"catalog", "running", "done"}) =>
        /\ statsRequested \cap PickedIds(svc.state) = {}
        /\ Ids(allScores) \cap PickedIds(svc.state) = {}
        /\ Ids(response.recommendations) \cap PickedIds(svc.state) = {}
        /\ (Answered /\ SeqSet(Catalog) \subseteq PickedIds(svc.state))
              => response.recommendations = <<>>

\* C4 witness: champion 5 is an ally, 3 an enemy, 6 banned; stats were
\* requested for other champions and a non-empty list came back.
C4_Witness ==
    /\ Answered
    /\ PickedIds(svc.state) = {3, 5, 6}
    /\ statsRequested # {}
    /\ Len(response.recommendations) >= 1

\* C4 witness (everything banned): the call resolved with the empty list and
\* requested no stats.
C4_WitnessAllBanned ==
    /\ Answered
    /\ engineCalls = 1
    /\ SeqSet(Catalog) \subseteq PickedIds(svc.state)
    /\ statsRequested = {}
    /\ response.recommendations = <<>>

\* C5: for every POST /api/recommendations that supplies non-negative weights
\* with a positive sum and is answered 200 with at least one candidate scored,
\* the four weights that getRecommendations applied in the weighted sum add up
\* to 1, and every returned totalScore lies in [0, 100].
C5_AppliedWeightsSumToOne ==
    (/\ req.via = "http"
     /\ Answered
     /\ allScores # <<>>
     /\ DOMAIN req.weights # {}
     /\ \A k \in DOMAIN req.weights : RatLe(Num(0), req.weights[k])
     /\ RatLt(Num(0), WeightSum(MergeWeights(DefaultWeights, req.weights))))
        => /\ WeightSum(svc.weights) = Num(1)
           /\ \A i \in 1..Len(response.recommendations) :
                 /\ RatLe(Num(0), response.recommendations[i].totalScore)
                 /\ RatLe(response.recommendations[i].totalScore, Num(100))

\* C7: for a POST /api/recommendations whose four weights sum to 0, no
\* candidate's stats are ever requested and no candidate is scored, the answer
\* is an input error (400), and no NaN totalScore is returned.
C7_ZeroWeightsRejected ==
    (/\ req.via = "http"
     /\ req.hasState
     /\ req.state.myRole # NoRole
     /\ DOMAIN req.weights = WeightKeys
     /\ WeightSum(req.weights) = Num(0))
        => /\ statsRequested = {}
           /\ allScores = <<>>
           /\ reqPc = "done" => response.status = "400"
           /\ \A i \in 1..Len(response.recommendations) :
                 ~IsNaN(response.recommendations[i].totalScore)

\* C8: a request whose draft state has no myRole (or, over HTTP, no
\* currentState) is over as soon as it is made, with an input error: the
\* service call rejects with the role error, the HTTP handler answers 400
\* without calling getRecommendations; no catalog fetch and no provider call
\* is issued and the cache is left as it was.
C8_MissingRoleRejected ==
    (req.via # "none" /\ (~req.hasState \/ req.state.myRole = NoRole)) =>
        /\ reqPc = "done"
        /\ response.recommendations = <<>>
        /\ catalogFetches = 0
        /\ providerCalls = 0
        /\ statsRequested = {}
        /\ cache = cacheAtCall
        /\ req.via = "http" => (response.status = "400" /\ engineCalls = 0)
        /\ req.via = "direct" =>
              /\ response.status = "rejected"
              /\ response.error = "Role must be specified to generate recommendations"

\* C8 witness: getRecommendations was called as a function with myRole unset
\* while championsMap was not loaded and part of the cache had expired; it
\* rejected.
C8_Witness ==
    /\ req.via = "direct"
    /\ req.state.myRole = NoRole
    /\ reqPc = "done"
    /\ response.status = "rejected"
    /\ ~catalogLoaded
    /\ ~CacheGet(cache, SampleKey(1, "middle"), now).hit

\* C8 witness (HTTP): a body with a currentState but no myRole got 400.
C8_WitnessHttp ==
    /\ req.via = "http"
    /\ req.hasState
    /\ req.state.myRole = NoRole
    /\ response.status = "400"

\* C9: when getRecommendations has resolved, every candidate for which
\* getChampionStats returned null or stats with fewer than minMatches matches
\* is absent from the scored and from the returned list, and every scored or
\* returned entry carries the stats getChampionStats returned for it, with
\* matches >= minMatches.
C9_InsufficientDropped ==
    Answered =>
        /\ \A c \in statsRequested :
              (IsNull(statsSeen[c]) \/ statsSeen[c].matches < minMatches)
                  => (c \notin Ids(allScores) /\ c \notin Ids(response.recommendations))
        /\ \A j \in 1..Len(allScores) :
              /\ allScores[j].stats = statsSeen[allScores[j].championId]
              /\ allScores[j].stats.matches >= minMatches
        /\ \A i \in 1..Len(response.recommendations) :
              response.recommendations[i].stats.matches >= minMatches

\* C9 witness: champion 4 was sampled during this request, only 13 matches
\* were found, its stats came back null and it is absent, while other
\* candidates were returned.
C9_Witness ==
    /\ Answered
    /\ 4 \in statsRequested
    /\ IsNull(statsSeen[4])
    /\ ~CacheGet(cacheAtCall, SampleKey(4, "middle"), now).hit
    /\ CacheGet(cache, SampleKey(4, "middle"), now).hit
    /\ Len(CacheGet(cache, SampleKey(4, "middle"), now).data) = 13
    /\ 4 \notin Ids(allScores)
    /\ Len(response.recommendations) >= 1

\* C10: when provider calls failed during the tasks of exactly one candidate,
\* getRecommendations still resolves, and every other candidate is present or
\* absent, and scored, exactly as it is when no call fails (the failing
\* candidate itself may be dropped or rescored).
C10_FailureIsolated ==
    (reqPc = "done" /\ failures >= 1 /\ Cardinality(failedFor) = 1) =>
        /\ Answered
        /\ \A d \in SeqSet(avail) \ failedFor :
              ScoreOf(allScores, d) = Undisturbed(d, svc.state, svc.weights).res

\* without any failed provider call every candidate is scored as Undisturbed
\* says
NoFailureBaseline ==
    (Answered /\ failures = 0) =>
        \A d \in SeqSet(avail) :
            ScoreOf(allScores, d) = Undisturbed(d, svc.state, svc.weights).res

\* C11: when the getAllChampions() call awaited by getRecommendations fails,
\* the request is over at once with an error (the promise rejects with the
\* fetch error, the HTTP handler answers 500) and no list, no candidate having
\* been looked at; the failure leaves championsMap as it was, and a later call
\* that finds it unloaded issues the fetch again.
C11_CatalogFailureRejects ==
    [][/\ (catalogOutcome # "failed" /\ catalogOutcome' = "failed") =>
            /\ reqPc' = "done"
            /\ response'.status = (IF req.via = "http" THEN "500" ELSE "rejected")
            /\ req.via = "direct" => response'.error = "getAllChampions failed"
            /\ response'.recommendations = <<>>
            /\ statsRequested' = {}
            /\ catalogLoaded' = catalogLoaded
       /\ (calls' = calls + 1 /\ catalogOutcome = "failed" /\ ~catalogLoaded) =>
            /\ reqPc' = "catalog"
            /\ catalogFetches' = catalogFetches + 1
      ]_vars

\* C11 witness: a first call was rejected because the catalog fetch failed,
\* championsMap stayed unloaded, and the same call made again fetched the
\* catalog a second time and returned candidates.
C11_Witness ==
    /\ calls = 2
    /\ prevResponse.status = "rejected"
    /\ prevResponse.error = "getAllChampions failed"
    /\ catalogFetches = 2
    /\ catalogOutcome = "ok"
    /\ Answered
    /\ Len(response.recommendations) >= 1

\* C12: when a call that resolved is made again with the same draft state,
\* weights and topN (no cache entry having expired in between), the second
\* call resolves with exactly the list of the first: same candidates, order,
\* scores, stats and reasoning, whatever the order in which the tasks of the
\* first call completed and whichever of its provider calls failed.
C12_RepeatIsIdentical ==
    (calls >= 2 /\ reqPc = "done" /\ prevResponse.status \in {"200", "resolved"}) =>
        /\ response.status = prevResponse.status
        /\ response.recommendations = prevResponse.recommendations

\* C12 witness: the first call had to sample two candidates of one batch from
\* the provider, the second call found everything cached, and both returned
\* the same non-empty list.
C12_Witness ==
    /\ calls = 2
    /\ Answered
    /\ prevResponse.status = "resolved"
    /\ providerCalls >= 4
    /\ Len(response.recommendations) >= 2
    /\ response.recommendations = prevResponse.recommendations

\* the four sub-scores of the breakdown built from the drawn input
SubScores ==
    {scOut.breakdown.winRateScore, scOut.breakdown.pickRateScore,
     scOut.breakdown.counterScore, scOut.breakdown.synergyScore}
InRange(x, lo, hi) == RatLe(lo, x) /\ RatLe(x, hi)

\* C13: whatever finite win rate and whatever tier string the stats carry, and
\* whatever win rates and sample sizes the fetched matchups and synergies
\* carry, each of winRateScore, pickRateScore, counterScore and synergyScore
\* of the breakdown lies in [0, 100].
C13_SubScoresInRange ==
    (scPc # "input") => \A x \in SubScores : InRange(x, Num(0), Num(100))

\* C13 witness: two matchups with win rate 1 on 10 matches each were fetched;
\* the raw counter value 550 was clamped to 100.
C13_Witness ==
    /\ scPc = "scored"
    /\ scIn.kind = "counter"
    /\ features.enableCounterCalculation
    /\ Len(scIn.matchups) = 2
    /\ \A i \in 1..2 : scIn.matchups[i] = [winRate |-> Num(1), matches |-> 10]
    /\ scOut.breakdown.counterScore = Num(100)

\* C13 witness (lower side): a win rate below 0 and an unknown tier string
\* gave winRateScore 0 and pickRateScore 50.
C13_WitnessLow ==
    /\ scPc = "scored"
    /\ RatLt(scIn.stats.winRate, Num(0))
    /\ scIn.stats.tier = "S+"
    /\ scOut.breakdown.winRateScore = Num(0)
    /\ scOut.breakdown.pickRateScore = Num(50)

\* C14: calculateWinRateScore gives 0 for every winRate <= 0.45, 100 for every
\* winRate >= 0.55 and rises linearly in between, (winRate - 0.45) * 1000, so
\* that 0.50 gives 50, 0.30 gives 0 and 0.60 gives 100.
C14_WinRateScoreRamp ==
    (scPc # "input") =>
        LET w == scIn.stats.winRate
            x == scOut.breakdown.winRateScore
        IN  /\ RatLe(w, <<9, 20>>) => x = Num(0)
            /\ RatLe(<<11, 20>>, w) => x = Num(100)
            /\ (RatLt(<<9, 20>>, w) /\ RatLt(w, <<11, 20>>))
                  => x = RatMul(RatSub(w, <<9, 20>>), Num(1000))

\* C15: for empty myTeam, enemyTeam and bannedChampions, default weights,
\* topN = 1 and the single candidate with winRate 0.523 and tier A, the list
\* returned holds that candidate with counterScore 50, synergyScore 50,
\* pickRateScore 60, winRateScore within 0.5 of 73 and totalScore within 0.05
\* of 60.2.
C15_WorkedExample ==
    (/\ scPc = "returned"
     /\ scIn.kind = "stats"
     /\ scIn.stats.winRate = <<523, 1000>>
     /\ scIn.stats.tier = "A") =>
        /\ Len(scTop) = 1
        /\ scTop[1].championId = 1
        /\ scTop[1].breakdown.counterScore = Num(50)
        /\ scTop[1].breakdown.synergyScore = Num(50)
        /\ scTop[1].breakdown.pickRateScore = Num(60)
        /\ InRange(scTop[1].breakdown.winRateScore, <<145, 2>>, <<147, 2>>)
        /\ InRange(scTop[1].totalScore, <<1203, 20>>, <<1205, 20>>)

\* a fetched entry that calculateCounterScore / calculateSynergyScore keeps
Usable(fetched, minSample) ==
    \E i \in 1..Len(fetched) : ~IsNull(fetched[i]) /\ fetched[i].matches >= minSample

\* C16: counterScore is exactly 50 whenever enemyTeam is empty, or counter
\* calculation is disabled, or no fetched matchup is both present and has at
\* least 10 matches; synergyScore is exactly 50 whenever myTeam is empty, or
\* synergy calculation is disabled, or no fetched synergy is both present and
\* has at least 5 matches; in particular lookups that all came back null leave
\* both at 50.
C16_NeutralWithoutData ==
    (scPc # "input") =>
        /\ (\/ Len(scIn.state.enemyTeam) = 0
            \/ ~features.enableCounterCalculation
            \/ ~Usable(scIn.matchups, 10))
              => scOut.breakdown.counterScore = Num(50)
        /\ (\/ Len(scIn.state.myTeam) = 0
            \/ ~features.enableSynergyCalculation
            \/ ~Usable(scIn.synergies, 5))
              => scOut.breakdown.synergyScore = Num(50)

\* C16 witness: with counter calculation enabled and two enemies, one lookup
\* came back null and the other with win rate 1 on only 9 matches; counterScore
\* is 50.
C16_Witness ==
    /\ scPc = "scored"
    /\ features.enableCounterCalculation
    /\ scIn.matchups = <<Null, [winRate |-> Num(1), matches |-> 9]>>
    /\ Len(scIn.state.enemyTeam) = 2
    /\ scOut.breakdown.counterScore = Num(50)

\* C16 witness (disabled): synergy calculation is off, an ally's synergy with
\* win rate 1 on 10 matches is on offer, and synergyScore is 50.
C16_WitnessDisabled ==
    /\ scPc = "scored"
    /\ ~features.enableSynergyCalculation
    /\ scIn.synergies = <<[winRate |-> Num(1), matches |-> 10]>>
    /\ scOut.breakdown.synergyScore = Num(50)

\* C16 witness (synergy minimum): an ally's synergy with win rate 1 on 4
\* matches was fetched with synergy calculation on; synergyScore is 50, while
\* the same on 5 matches moves it.
C16_WitnessSynergy ==
    /\ scPc = "scored"
    /\ features.enableSynergyCalculation
    /\ scIn.synergies = <<[winRate |-> Num(1), matches |-> 4]>>
    /\ scOut.breakdown.synergyScore = Num(50)

\* the stats entry of champion 1 in the cache, Null when there is none
CachedStats ==
    LET g == CacheGet(cache, StatsKey(1, "middle"), now) IN
    IF g.hit THEN g.data ELSE Null

\* C17: getChampionStats returns null whenever the accumulated sample has
\* fewer than 30 matches and a ChampionStats (counting all of them) whenever
\* it has at least 30; and whatever it returns or has written to the cache
\* has matches >= 30.
C17_MinimumSample ==
    (stPc # "input") =>
        /\ Len(stSample) < 30 => (IsNull(stRet) /\ IsNull(CachedStats))
        /\ Len(stSample) >= 30 => (~IsNull(stRet) /\ stRet.matches = Len(stSample))
        /\ ~IsNull(stRet) => stRet.matches >= 30
        /\ ~IsNull(CachedStats) => CachedStats.matches >= 30

\* C17 witness: a sample of exactly 30 matches gave stats, which were cached.
C17_Witness ==
    /\ stPc = "first"
    /\ Len(stSample) = 30
    /\ ~IsNull(stRet)
    /\ stRet.matches = 30
    /\ CachedStats = stRet

\* C17 witness (29): a sample of 29 matches gave null, also when asked again
\* with the sample cached, and no stats were cached.
C17_WitnessAbsent ==
    /\ stPc = "second"
    /\ Len(stSample) = 29
    /\ IsNull(stRet)
    /\ IsNull(CachedStats)

\* C18 as stated: a sample of exactly 30 matches with 16 wins gives
\* winRate = 16/30 and tier "A".
C18_SixteenOfThirtyIsA ==
    (stPc # "input" /\ Len(stSample) = 30 /\ WinsIn(stSample) = 16) =>
        /\ ~IsNull(stRet)
        /\ stRet.winRate = <<8, 15>>
        /\ stRet.tier = "A"

\* C18 as amended: a sample of exactly 30 matches with 16 wins gives
\* winRate = 16/30 and tier "S", 16/30 being above the 0.53 breakpoint.
C18_SixteenOfThirtyIsS ==
    (stPc # "input" /\ Len(stSample) = 30 /\ WinsIn(stSample) = 16) =>
        /\ ~IsNull(stRet)
        /\ stRet.winRate = <<8, 15>>
        /\ stRet.matches = 30
        /\ stRet.tier = "S"

\* C18 witness: the sample of 30 matches with 16 wins has been aggregated.
C18_Witness ==
    /\ stPc = "first"
    /\ Len(stSample) = 30
    /\ WinsIn(stSample) = 16
    /\ ~IsNull(stRet)
    /\ stRet.tier = "S"

\* the events of one kind in the log of retryRequest
EventsOf(ev) == SelectSeq(rtLog, LAMBDA e : e.ev = ev)

\* C19: retryRequest invokes the operation at most retryAttempts (3) times;
\* it resolves with the result of the first successful invocation and invokes
\* nothing after it; after the k-th failure (k < 3) it waits
\* retryDelay * 2^(k-1) ms (2000, then 4000) and invokes attempt k+1 no earlier
\* than that; after the third failure it rejects with the error of that
\* third attempt without waiting again.
C19_RetryWithBackoff ==
    /\ Len(EventsOf("call")) <= 3
    /\ \A i \in 1..Len(rtLog) :
          /\ rtLog[i].ev = "ok" => (i = Len(rtLog) /\ rtPc = "resolved")
          /\ rtLog[i].ev = "wait" =>
                /\ rtLog[i].attempt < 3
                /\ rtLog[i - 1].ev = "fail" /\ rtLog[i - 1].attempt = rtLog[i].attempt
                /\ rtLog[i].info = (IF rtLog[i].attempt = 1 THEN 2000 ELSE 4000)
                /\ i < Len(rtLog) =>
                      /\ rtLog[i + 1].ev = "call"
                      /\ rtLog[i + 1].attempt = rtLog[i].attempt + 1
                      /\ rtLog[i + 1].at >= rtLog[i].at + rtLog[i].info
          /\ (rtLog[i].ev = "fail" /\ rtLog[i].attempt < 3) =>
                (i < Len(rtLog) /\ rtLog[i + 1].ev = "wait")
          /\ (rtLog[i].ev = "fail" /\ rtLog[i].attempt = 3) =>
                (i = Len(rtLog) /\ rtPc = "rejected")
    /\ rtPc = "resolved" =>
          /\ rtLog[Len(rtLog)].ev = "ok"
          /\ rtResult = [kind |-> "value", attempt |-> Len(EventsOf("call"))]
          /\ Len(EventsOf("fail")) = Len(EventsOf("call")) - 1
    /\ rtPc = "rejected" =>
          /\ Len(EventsOf("call")) = 3
          /\ rtResult.kind = "error"
          /\ rtResult.error = rtLog[Len(rtLog)].info
          /\ rtResult.error.attempt = 3
          /\ Len(EventsOf("wait")) = 2

\* C19 witness: three failed attempts, the waits 2000 and 4000 in between, and
\* the rejection with the third error 6000 ms after the start.
C19_Witness ==
    /\ rtPc = "rejected"
    /\ Len(EventsOf("fail")) = 3
    /\ EventsOf("wait")[1].info = 2000
    /\ EventsOf("wait")[2].info = 4000
    /\ now = 6000
    /\ rtResult.error.attempt = 3

\* C19 witness (success): the second attempt succeeded after one wait and
\* nothing was invoked after it.
C19_WitnessResolved ==
    /\ rtPc = "resolved"
    /\ Len(EventsOf("call")) = 2
    /\ rtResult.attempt = 2

\* C20: a provider call answered 404 hands its caller an explicit absent
\* value (it does not throw), a transient failure never yields that same
\* value, and retryRequest never waits and retries after a 404.
C20_NotFoundIsAbsent ==
    /\ (rcLast.method # "none" /\ rcLast.response = "notFound") => rcLast.result = "null"
    /\ (rcLast.method # "none" /\ rcLast.response = "transient") => rcLast.result # "null"
    /\ \A i \in 1..Len(rtLog) :
          (rtLog[i].ev = "fail" /\ rtLog[i].info.status = 404) => i = Len(rtLog)

\* C21: a sampling provider call (leaderboard listing, player lookup,
\* match-id listing, match detail) that met a transient failure issued its
\* request retryAttempts times before it was given up.
C21_SamplingCallsRetried ==
    (rcLast.method \in SamplingMethods /\ rcLast.response = "transient") =>
        rcLast.requests = retryAttempts

\* C22: at every instant and for every key, has(k) answers true exactly when
\* get(k) would return a value; a get(k) or has(k) call removes k's entry
\* exactly when now > expiresAt holds for it, and leaves every other entry
\* (and an unexpired entry of k) as it was.
C22_HasMirrorsGet ==
    [][\A k \in CacheKeys :
          /\ CacheHas(cache, k, now) <=> CacheGet(cache, k, now).hit
          /\ (cacheRet'.op \in {"get", "has"} /\ cacheRet'.key = k
                  /\ cacheRet'.at = now /\ now' = now) =>
                /\ cacheRet'.op = "has" => (cacheRet'.ret <=> CacheGet(cache, k, now).hit)
                /\ cacheRet'.op = "get" => (cacheRet'.ret.hit <=> CacheHas(cache, k, now))
                /\ DOMAIN cache' =
                      DOMAIN cache \ {x \in {k} \cap DOMAIN cache : now > cache[x].expiresAt}
                /\ \A x \in DOMAIN cache' : cache'[x] = cache[x]]_vars

\* C22 witness: has(k1) on an expired entry that no sweep had removed yet
\* answered false and removed it, while the entry of k2 stayed.
C22_Witness ==
    /\ cacheRet.op = "has" /\ cacheRet.key = "k1" /\ ~cacheRet.ret
    /\ cacheRet.at = now
    /\ "k1" \in DOMAIN lastSet /\ lastSet["k1"].at + lastSet["k1"].ttl < now
    /\ "k1" \notin DOMAIN cache
    /\ "k2" \in DOMAIN cache
    /\ cleanupRunning /\ nextSweep = CleanupPeriod

\* C22 witness (boundary): has(k) at exactly expiresAt answered true and kept
\* the entry.
C22_WitnessBoundary ==
    /\ cacheRet.op = "has" /\ cacheRet.ret
    /\ cacheRet.at = now
    /\ cacheRet.key \in DOMAIN cache
    /\ cache[cacheRet.key].expiresAt = now
    /\ now > 0

\* C23: while the cache is not destroyed, an entry that is still in the store
\* after its expiresAt has passed (nothing read or rewrote it) is removed by
\* a sweep tick that is due no later than expiresAt + 60 s; and a sweep
\* removes exactly the entries with now > expiresAt, leaving every other
\* entry unchanged.
C23_SweepBoundsExpired ==
    [][/\ \A k \in DOMAIN cache :
             (cleanupRunning /\ now > cache[k].expiresAt) =>
                 nextSweep <= cache[k].expiresAt + 60000
       /\ nextSweep' # nextSweep =>
             /\ DOMAIN cache' = {k \in DOMAIN cache : ~(now > cache[k].expiresAt)}
             /\ \A k \in DOMAIN cache' : cache'[k] = cache[k]]_vars

\* C23 witness: a sweep removed the expired entry of k1, which had been written
\* and not read since, and kept the unexpired entry of k2.
C23_Witness ==
    /\ cacheRet.op = "sweep" /\ cacheRet.at = now
    /\ nextSweep = 2 * CleanupPeriod
    /\ "k1" \in DOMAIN lastSet /\ lastSet["k1"].at + lastSet["k1"].ttl < now
    /\ lastSet["k1"].at + lastSet["k1"].ttl + CleanupPeriod >= now
    /\ "k1" \notin DOMAIN cache
    /\ "k2" \in DOMAIN cache /\ cache["k2"].expiresAt >= now

\* C23 witness (boundary): an entry whose expiresAt is the very instant of the
\* sweep was left in the store by it.
C23_WitnessBoundary ==
    /\ cacheRet.op = "sweep" /\ cacheRet.at = now
    /\ \E k \in DOMAIN cache : cache[k].expiresAt = now

\* C24: every destroy() call, in whatever state it is made, leaves the store
\* empty and the sweep timer stopped (so a repeated call ends in the same
\* state as the first); the timer is never started again, and once it is
\* stopped no sweep runs.
C24_DestroyIdempotent ==
    [][/\ (cacheRet'.op = "destroy" /\ cacheRet'.at = now /\ now' = now) =>
             /\ cache' = EmptyMap
             /\ ~cleanupRunning'
             /\ nextSweep' = nextSweep
       /\ ~cleanupRunning =>
             /\ ~cleanupRunning'
             /\ nextSweep' = nextSweep
             /\ (cacheRet'.op = "sweep" => cacheRet' = cacheRet)]_vars

\* C24 witness: destroy() was called again after the timer had already been
\* stopped, on a store that had been written to since; the store is empty,
\* and the sweep due at 60 s has not run although that time has passed.
C24_Witness ==
    /\ cacheRet.op = "destroy" /\ cacheRet.at = now
    /\ ~cacheRet.stopped
    /\ cacheRet.dropped >= 1
    /\ cache = EmptyMap /\ ~cleanupRunning
    /\ now > CleanupPeriod /\ nextSweep = CleanupPeriod

\* the ids of the getMatch calls getMatchesBatch has started / seen succeed
BatchLogIds(ev) ==
    [i \in 1..Len(SelectSeq(gbLog, LAMBDA e : e.ev = ev)) |->
        SelectSeq(gbLog, LAMBDA e : e.ev = ev)[i].id]

\* C25: getMatchesBatch starts its getMatch calls in input order, each only
\* after the previous one has settled (so at most one is in flight); a failed
\* id is skipped and the next id is still fetched; and it returns exactly the
\* matches whose fetch succeeded, in input order, after every id was tried.
C25_BatchSequentialSkipping ==
    /\ BatchLogIds("start") = SubSeq(gbIds, 1, gbAt)
    /\ \A i \in 1..Len(gbLog) :
          /\ (gbLog[i].ev = "start" /\ i > 1) => gbLog[i - 1].ev \in {"ok", "fail"}
          /\ gbLog[i].ev \in {"ok", "fail"} =>
                (gbLog[i - 1].ev = "start" /\ gbLog[i - 1].id = gbLog[i].id)
          /\ (gbLog[i].ev = "fail" /\ Len(BatchLogIds("start")) < Len(gbIds)) =>
                (i < Len(gbLog) /\ gbLog[i + 1].ev = "start")
    /\ gbMatches = BatchLogIds("ok")
    /\ gbPc = "done" =>
          /\ BatchLogIds("start") = gbIds
          /\ Len(gbLog) = 2 * Len(gbIds)
          /\ Len(gbMatches) = Len(gbIds) - Len(BatchLogIds("fail"))

\* C25 witness: of three ids the second failed; the third was fetched all the
\* same and the first and third matches were returned, in that order.
C25_Witness ==
    /\ gbPc = "done"
    /\ gbIds = <<101, 102, 103>>
    /\ BatchLogIds("fail") = <<102>>
    /\ gbMatches = <<101, 103>>
    /\ now >= 2 * BatchDelay

\* the calculateChampionScore computations of the running call that have
\* started and not yet resolved, and the place of a candidate in
\* availableChampions
InFlight == {c \in Champions : taskPc[c] \in {"pool", "fetch"}}
PlaceOf(c) == CHOOSE i \in 1..Len(avail) : avail[i] = c

C26_WitnessSecondBatch ==
    /\ reqPc = "running" /\ batchAt = 11
    /\ InFlight = {2}
    /\ ~CacheGet(cacheAtCall, StatsKey(1, "middle"), now).hit
    /\ 1 \in statsRequested /\ ~IsNull(statsSeen[1])

\* the values one getHighEloPlayers run can write: the challenger list, whole
\* or replaced by [], followed by the master list, whole or replaced by []
WholePools ==
    {ch \o ma : ch \in {<<>>, ChallengerPlayers}, ma \in {<<>>, MasterPlayers}}

\* C27: when the tasks of one batch miss the player-pool key together and each
\* fetches and sets it, the cache holds for that key, at every instant, either
\* nothing or the whole list one task wrote (and every task works on such a
\* whole list); a task's set replaces the entry with exactly its own list; and
\* when no provider call failed the request is answered as without the race.
C27_RacingSetsStayWhole ==
    [][/\ PoolKey \in DOMAIN cache =>
             /\ cache[PoolKey].data \in WholePools
             /\ cache[PoolKey].expiresAt = cache[PoolKey].timestamp + 86400000
       /\ \A c \in Champions :
             /\ taskPool[c] \in WholePools
             /\ (taskPc[c] = "pool" /\ taskPc'[c] # "pool") =>
                   /\ taskPool'[c] \in WholePools
                   /\ cache'[PoolKey].data = taskPool'[c]
                   /\ \A k \in DOMAIN cache \ {PoolKey} :
                         k \in DOMAIN cache' /\ cache'[k] = cache[k]
       /\ (Answered /\ failures = 0) =>
             /\ \A d \in SeqSet(avail) :
                   ScoreOf(allScores, d) = Undisturbed(d, svc.state, svc.weights).res
             /\ PoolKey \in DOMAIN cache => cache[PoolKey].data = FullPool]_vars

\* C27 witness: champions 1 and 4 missed the pool key together; 1 has fetched
\* and set it, and 4, still fetching, will set it again.
C27_Witness ==
    /\ reqPc = "running"
    /\ ~CacheGet(cacheAtCall, PoolKey, now).hit
    /\ taskPc[1] = "fetch" /\ taskPc[4] = "pool"
    /\ CacheGet(cache, PoolKey, now).hit
    /\ CacheGet(cache, PoolKey, now).data = taskPool[1]

\* C27 witness (after the race): both fetched the pool, nothing failed, and
\* the request was answered with both scored.
C27_WitnessAfter ==
    /\ Answered /\ failures = 0 /\ calls = 1
    /\ ~CacheGet(cacheAtCall, PoolKey, now).hit
    /\ ~CacheGet(cacheAtCall, SampleKey(1, "middle"), now).hit
    /\ ~CacheGet(cacheAtCall, SampleKey(4, "middle"), now).hit
    /\ providerCalls = 4
    /\ CacheGet(cache, PoolKey, now).data = FullPool
    /\ 1 \in Ids(allScores)

\* C28: every client.get to the provider is called by a method whose own
\* waitForSlot() has just returned (each issue has its own admission, at the
\* same instant), so of any 21 such calls the first and the last are started
\* at least 1000 ms apart: no 1000 ms window holds more than 20 starts.
C28_ProviderCallsAdmitted ==
    /\ issued = admitted
    /\ \A i \in 1..Len(issued) :
          i + 20 <= Len(issued) => issued[i + 20] - issued[i] >= 1000
    /\ \A c \in Callers : rlPc[c] = "sleeping" => rqMethod[c] \in RiotMethods

\* C28 witness: twenty calls were started at once, the twenty-first had to
\* wait and was started 1000 ms or more after the first.
C28_Witness ==
    /\ Len(issued) >= 21
    /\ issued[20] = issued[1]
    /\ issued[21] >= issued[1] + 1000

\* C28 witness: a getMatch call is kept waiting while twenty calls started
\* within the last 1000 ms are on record.
C28_WitnessWaiting ==
    /\ \E c \in Callers : rlPc[c] = "sleeping" /\ rqMethod[c] = "getMatch"
    /\ Len(issued) >= 20
    /\ now - issued[Len(issued) - 19] < 1000

\* C29: with maxRequests >= 1 and finitely many callers, every waitForSlot()
\* call that was suspended is eventually admitted while time keeps advancing;
\* a suspended caller goes on only when its timer is due, and it is admitted
\* only by an evaluation that finds fewer than maxRequests timestamps in the
\* window, however often it has waited: otherwise it is suspended again.
C29_WaitersAdmittedByCheck ==
    /\ \A c \in Callers : (rlPc[c] = "sleeping") ~> (rlPc[c] = "admitted")
    /\ [][\A c \in Callers :
            (rlPc[c] = "sleeping" /\ (rlPc'[c] # "sleeping" \/ rlWake'[c] # rlWake[c])) =>
                /\ now >= rlWake[c]
                /\ maxRequests >= 1
                /\ IF Len(RLPrune(queue, now, timeWindow)) < maxRequests
                   THEN rlPc'[c] = "admitted" /\ waits'[c] = waits[c]
                   ELSE /\ rlPc'[c] = "sleeping"
                        /\ rlWake'[c] > now
                        /\ waits'[c] = waits[c] + 1]_vars

\* C29 witness: a caller that waited, found the window full again, waited a
\* second time and was then admitted.
C29_Witness ==
    \E c \in Callers : rlPc[c] = "admitted" /\ waits[c] >= 2

\* C29 witness: a caller is suspended a second time.
C29_WitnessWaitingAgain ==
    \E c \in Callers : rlPc[c] = "sleeping" /\ waits[c] = 2 /\ now < rlWake[c]

\* the players named by the events ev of the sampling log, in order
SampleLogPlayers(ev) ==
    LET evs == SelectSeq(smLog, LAMBDA e : e[1] = ev)
    IN  [k \in 1..Len(evs) |-> evs[k][2]]

\* the position of player p in the pool (pools hold no player twice)
PoolPlace(p) == CHOOSE i \in 1..Len(smPool) : smPool[i] = p

\* C30: one sampling run on a cache miss requests match histories
\* (getMatchIds) only for players among the first 10 of the pool and in pool
\* order; while a player is being processed fewer than 200 matches are
\* accumulated, so no request is made once 200 are reached; a player whose
\* lookup or history request fails is skipped and the loop goes on: the
\* players looked up are always the first smIdx of the slice, those with a
\* history request are exactly the looked-up ones not skipped before it, and
\* a run that ends with fewer than 200 matches has gone through the whole
\* slice.
C30_SamplingBounded ==
    LET first == Slice0(smPool, TopPlayers)
        looked == SampleLogPlayers("getSummonerByPuuid")
        asked == SampleLogPlayers("getMatchIds")
        skipped == SampleLogPlayers("skipped")
        Range(q) == {q[k] : k \in 1..Len(q)}
    IN  /\ Len(asked) <= 10
        /\ \A k \in 1..Len(asked) :
              /\ PoolPlace(asked[k]) <= 10
              /\ \A j \in 1..(k - 1) : PoolPlace(asked[j]) < PoolPlace(asked[k])
        /\ smPc \in {"summoner", "matchIds"} => smMatches < 200
        /\ smPc # "idle" => looked = Slice0(first, smIdx)
        /\ Range(asked) \cup Range(skipped) =
              IF smPc = "summoner" THEN Range(looked) \ {first[smIdx]} ELSE Range(looked)
        /\ Len(asked) + Len(skipped) - Cardinality(Range(asked) \cap Range(skipped))
              = Cardinality(Range(asked) \cup Range(skipped))
        /\ smPc = "done" =>
              /\ smResult.cached = smMatches
              /\ IF smMatches >= 200
                 THEN smIdx <= Len(first) /\ first[smIdx] \in Range(asked) \ Range(skipped)
                 ELSE looked = first

\* C30 witness: a pool of more than 10 players, in descending order; two of
\* the first 10 were skipped, one at its lookup and one at its history
\* request; nine players were asked for their histories, and the run ended
\* below 200 matches with a player after the second skip still sampled.
C30_Witness ==
    /\ smPc = "done"
    /\ Len(smPool) > 10 /\ smPool[1] > smPool[2]
    /\ Len(SampleLogPlayers("skipped")) = 2
    /\ Len(SampleLogPlayers("getMatchIds")) = 9
    /\ smMatches > 0 /\ smMatches < 200
    /\ smLog[Len(smLog)][1] = "getMatchIds"

\* C30 witness: the sample reached 200 matches at the fourth player of the
\* slice, after one player was skipped, and the remaining players of the
\* slice were not requested.
C30_WitnessEarlyStop ==
    /\ smPc = "done"
    /\ smMatches >= 200
    /\ smIdx = 4 /\ Len(smPool) >= 10
    /\ Len(SampleLogPlayers("skipped")) = 1
    /\ Len(SampleLogPlayers("getSummonerByPuuid")) = 4

\* a step that is a getMatchupData or getSynergyData query
DerivedQueryStep ==
    /\ agLast'.op \in {"matchup", "synergy"}
    /\ \/ agLast' # agLast
       \/ cache' # cache

\* C31: a getMatchupData(c, o, r) or getSynergyData(c, a, r) made after
\* getChampionStats(c, r) completed a sampling run, within 2 hours of that run
\* and with no cache clear in between, issues no provider request: it is
\* answered by its own cached entry, which was computed from a sample served
\* by the cache, or it is computed from the raw sample found in the cache;
\* this also holds when the stats entry of that run has expired.
C31_DerivedQueriesReuseSample ==
    [][(DerivedQueryStep /\ agRunAt >= 0 /\ now <= agRunAt + 7200000) =>
        LET q == agLast'
            key == IF q.op = "matchup"
                   THEN MatchupKey(AggChampion, q.other, AggRole)
                   ELSE SynergyKey(AggChampion, q.other, AggRole)
            Derive(matches) ==
                IF q.op = "matchup"
                THEN MatchupFromSample(AggChampion, q.other, AggRole, matches)
                ELSE SynergyFromSample(AggChampion, q.other, AggRole, matches)
            raw == cache[SampleKey(AggChampion, AggRole)]
        IN  /\ agCalls' = agCalls
            /\ ~q.sampled
            /\ q.hit \/ q.sampleHit
            /\ SampleKey(AggChampion, AggRole) \in DOMAIN cache
            /\ raw.timestamp = agRunAt
            /\ cache'[SampleKey(AggChampion, AggRole)] = raw
            /\ q.sampleHit => (q.sample = raw.data /\ q.ret = Derive(raw.data))
            /\ q.hit => q.ret = Derive(agSource[key])]_vars

\* C31 witness: two hours after the sampling run of getChampionStats, with the
\* stats entry of that run expired, a matchup query was computed from the
\* cached raw sample and returned a value.
C31_Witness ==
    /\ agLast.op = "matchup"
    /\ agRunAt = 0 /\ now = 7200000
    /\ agLast.sampleHit /\ ~agLast.sampled
    /\ ~IsNull(agLast.ret)
    /\ agLast.sample = cache[SampleKey(AggChampion, AggRole)].data
    /\ StatsKey(AggChampion, AggRole) \in DOMAIN cache
    /\ Expired(cache[StatsKey(AggChampion, AggRole)], now)

\* C31 witness: a synergy query after the sampling run was served from the
\* cached raw sample, an empty one (the leaderboards were empty).
C31_WitnessEmptySample ==
    /\ agLast.op = "synergy"
    /\ agRunAt >= 0
    /\ agLast.sampleHit
    /\ agLast.sample = <<>>
    /\ IsNull(agLast.ret)

\* the sample from which the value of the last query was derived
LastSample ==
    IF agLast.hit
    THEN agSource[IF agLast.op = "matchup"
                  THEN MatchupKey(AggChampion, agLast.other, AggRole)
                  ELSE SynergyKey(AggChampion, agLast.other, AggRole)]
    ELSE agLast.sample

\* the participants of match `id` that play champion c in role r
PlaysIn(id, c, r) ==
    {i \in DOMAIN MatchParticipants(id) :
        /\ MatchParticipants(id)[i].championId = c
        /\ normalizeRole(MatchParticipants(id)[i].teamPosition) = r}

\* in match `id`, champion x is played on the team of a participant playing c
\* in role r (sameTeam), or on the other team
OnTeamOf(id, c, r, x, sameTeam) ==
    \E i \in PlaysIn(id, c, r) : \E j \in DOMAIN MatchParticipants(id) :
        /\ MatchParticipants(id)[j].championId = x
        /\ (MatchParticipants(id)[j].teamId = MatchParticipants(id)[i].teamId) = sameTeam

\* the positions of `sample` whose match satisfies P
PositionsWhere(sample, P(_)) == {k \in DOMAIN sample : P(sample[k])}

\* C32: the matches counted in a SynergyStats(c, a, r) that getSynergyData
\* returns are exactly the sampled matches with a participant playing c in
\* role r and a participant playing a on the same team, a match where a is only
\* on the other team is not among them, and a value is returned exactly when
\* there are at least 5 such matches.
C32_SynergyCountsSameTeam ==
    agLast.op = "synergy" =>
        LET counted == PositionsWhere(LastSample,
                LAMBDA id : OnTeamOf(id, AggChampion, AggRole, agLast.other, TRUE))
        IN  /\ ~agLast.hit => (IsNull(agLast.ret) <=> Cardinality(counted) < 5)
            /\ ~IsNull(agLast.ret) =>
                /\ agLast.ret.matches = Cardinality(counted)
                /\ agLast.ret.matches >= 5
                /\ agLast.ret.winRate =
                      Rat(Cardinality({k \in counted :
                              \E i \in PlaysIn(LastSample[k], AggChampion, AggRole) :
                                  MatchParticipants(LastSample[k])[i].win}),
                          Cardinality(counted))

\* C32 witness: getSynergyData returned a value from a sample that also holds
\* matches in which the ally is only on the other team.
C32_Witness ==
    /\ agLast.op = "synergy"
    /\ ~agLast.hit
    /\ ~IsNull(agLast.ret)
    /\ \E k \in DOMAIN agLast.sample :
          /\ OnTeamOf(agLast.sample[k], AggChampion, AggRole, agLast.other, FALSE)
          /\ ~OnTeamOf(agLast.sample[k], AggChampion, AggRole, agLast.other, TRUE)
    /\ agLast.ret.matches < Len(agLast.sample)

\* C32 witness: below 5 same-team matches getSynergyData returned null.
C32_WitnessBelowThreshold ==
    /\ agLast.op = "synergy"
    /\ agLast.sampleHit
    /\ agLast.sample # <<>>
    /\ IsNull(agLast.ret)

\* C33: the matches counted in a MatchupStats(c, o, r) that getMatchupData
\* returns are sampled matches in which o is played on the team opposing the
\* participant playing c in role r; a match where o is a teammate of c is not
\* counted.
C33_MatchupCountsOpposingTeam ==
    (agLast.op = "matchup" /\ ~IsNull(agLast.ret)) =>
        agLast.ret.matches <= Cardinality(PositionsWhere(LastSample,
                LAMBDA id : OnTeamOf(id, AggChampion, AggRole, agLast.other, FALSE)))

C38_EachMatchCountedOnce ==
    agLast.op \in {"stats", "matchup", "synergy"} =>
        \A i, j \in DOMAIN agLast.sample :
            agLast.sample[i] = agLast.sample[j] => i = j

\* the check a reasoning sentence belongs to: 1 win rate, 2 tier, 3 matchup,
\* 4 synergy, 5 limited data, 0 the fallback
SentenceRank(sentence) ==
    IF sentence[1] \in {"Strong win rate in tier", "Solid win rate"} THEN 1
    ELSE IF sentence[1] = "High tier champion" THEN 2
    ELSE IF sentence[1] \in {"Excellent matchup into enemy composition",
                             "Favorable matchups",
                             "Challenging matchups - requires skill"} THEN 3
    ELSE IF sentence[1] = "Strong synergy with team composition" THEN 4
    ELSE IF sentence[1] = "Limited data - results may vary" THEN 5
    ELSE 0

\* the threshold checks that fire on the scored input
ChecksFired ==
    {k \in 1..5 :
        \/ k = 1 /\ RatLe(<<1, 2>>, scIn.stats.winRate)
        \/ k = 2 /\ scIn.stats.tier \in {"S", "A"}
        \/ k = 3 /\ (\/ RatLe(Num(55), scOut.breakdown.counterScore)
                     \/ RatLt(scOut.breakdown.counterScore, Num(40)))
        \/ k = 4 /\ RatLe(Num(65), scOut.breakdown.synergyScore)
                 /\ Len(scIn.state.myTeam) > 0
        \/ k = 5 /\ scIn.stats.matches < 50}

\* C34: the reasoning of a scored candidate has at least one sentence; its
\* sentences come in the order win rate, tier, matchup, synergy, limited data,
\* one for each check that fired; the fallback sentence is there exactly when
\* no check fired and is then the only sentence.
C34_ReasoningOrderAndFallback ==
    (scPc # "input" /\ scIn.kind = "reasoning") =>
        LET r == scOut.reasoning
            fallback == <<"Balanced pick for current situation", 0, "">>
        IN  /\ Len(r) >= 1
            /\ \A i, j \in DOMAIN r : i < j => SentenceRank(r[i]) < SentenceRank(r[j])
            /\ ChecksFired # {} => {SentenceRank(r[i]) : i \in DOMAIN r} = ChecksFired
            /\ (\E i \in DOMAIN r : r[i] = fallback) <=> ChecksFired = {}
            /\ ChecksFired = {} => r = <<fallback>>

\* C34 witness: all five checks fired and the five sentences came out in order.
C34_Witness ==
    /\ scPc # "input"
    /\ scIn.kind = "reasoning"
    /\ ChecksFired = 1..5
    /\ Len(scOut.reasoning) = 5
    /\ [i \in 1..5 |-> SentenceRank(scOut.reasoning[i])] = <<1, 2, 3, 4, 5>>

\* C34 witness: no check fired, with enemies and allies picked, and the
\* reasoning is the fallback sentence alone.
C34_WitnessFallback ==
    /\ scPc # "input"
    /\ scIn.kind = "reasoning"
    /\ Len(scIn.state.enemyTeam) > 0 /\ Len(scIn.state.myTeam) > 0
    /\ features.enableCounterCalculation /\ features.enableSynergyCalculation
    /\ ChecksFired = {}
    /\ scOut.reasoning = <<<<"Balanced pick for current situation", 0, "">>>>

\* C35 as stated: callers are admitted in the order of their calls, a caller
\* that is waiting for a slot is never overtaken by a caller that called later
\* (the callers are numbered in call order).
C35_AdmittedInCallOrder ==
    \A c, d \in Callers :
        c < d => ~(rlPc[c] = "sleeping" /\ rlPc[d] = "admitted")

\* C35, amended: the limiter keeps no order among callers, only the admission
\* timestamps in the order of admission; a caller that finds the pruned window
\* below capacity is admitted at once, whether or not callers that called
\* earlier are still waiting.
C35_FreeSlotAdmitsAnyCaller ==
    /\ [](\A i \in 1..(Len(queue) - 1) : queue[i] <= queue[i + 1])
    /\ [][\A c \in Callers :
            (/\ rlPc[c] = "idle"
             /\ rlPc'[c] # "idle"
             /\ Len(RLPrune(queue, now, timeWindow)) < maxRequests) =>
                /\ rlPc'[c] = "admitted"
                /\ queue' = Append(RLPrune(queue, now, timeWindow), now)]_vars

\* C35 witness: a caller that called later was admitted just now, while a
\* caller that called earlier is still waiting for its timer.
C35_Witness ==
    \E c, d \in Callers :
        /\ c < d
        /\ rlPc[c] = "sleeping" /\ now < rlWake[c]
        /\ rlPc[d] = "admitted" /\ waits[d] = 0
        /\ queue # <<>> /\ queue[Len(queue)] = now

\* C36: the player pool held in the cache was obtained from successful
\* leaderboard responses: it is the whole pool, never an empty or truncated
\* one cached after a leaderboard request failed.
C36_CachedPoolIsComplete ==
    PoolKey \in DOMAIN cache => cache[PoolKey].data = FullPool

\* C39: after destroy() no reconnect timer is pending and no connection
\* attempt is started any more, also when the close event of the socket that
\* destroy() closed fires.
C39_DestroyStopsReconnecting ==
    lcuDestroyed => (reconnectTimer # "pending" /\ lcuAfter = 0)

\* C40: once every request of the hook has settled, all of them with
\* recommendations, the recommendations in state are those of the request
\* issued last; the response to an earlier request never replaces them.
C40_LastRequestWins ==
    (hkIssued # <<>> /\ hkInFlight = {} /\ hkFailed = {}) =>
        hkRecommendations = RecommendationsFor(hkIssued[Len(hkIssued)])

====
